---- MODULE Spec2Model ----
(***************************************************************************)
(* Model of fetcher-mcp's download_url tool (downloadUrl), its URL         *)
(* protocol validator and the resource-type classification it performs.   *)
(* Strings are TLA+ strings; the JavaScript and Node library functions the *)
(* code calls (trim, toLowerCase, split, the Content-Disposition regular   *)
(* expression, path.extname, path.join, new URL) are operators that        *)
(* compute what those functions compute on POSIX.                          *)
(***************************************************************************)
EXTENDS Integers, Sequences, FiniteSets, TLC

\* ------------------------------------------------------------------------
\* String primitives (JavaScript String.prototype)
\* ------------------------------------------------------------------------

CharAt(s, i) == SubSeq(s, i, i)

UpperChars == "ABCDEFGHIJKLMNOPQRSTUVWXYZ"

LowerChars == "abcdefghijklmnopqrstuvwxyz"

DigitChars == "0123456789"

IsIn(c, chars) == \E i \in 1..Len(chars) : CharAt(chars, i) = c

LowerChar(c) ==
    IF IsIn(c, UpperChars)
    THEN CharAt(LowerChars, CHOOSE i \in 1..26 : CharAt(UpperChars, i) = c)
    ELSE c

RECURSIVE toLowerCase(_)
toLowerCase(s) ==
    IF s = "" THEN "" ELSE LowerChar(CharAt(s, 1)) \o toLowerCase(Tail(s))

IsSpace(c) == c \in {" ", "\t", "\n", "\r"}

\* String.prototype.trim
trim(s) ==
    LET keep == {i \in 1..Len(s) : ~IsSpace(CharAt(s, i))}
    IN  IF keep = {} THEN ""
        ELSE SubSeq(s, CHOOSE i \in keep : \A j \in keep : i <= j,
                       CHOOSE i \in keep : \A j \in keep : i >= j)

endsWith(s, suffix) ==
    /\ Len(s) >= Len(suffix)
    /\ SubSeq(s, Len(s) - Len(suffix) + 1, Len(s)) = suffix

startsWithAt(s, i, prefix) ==
    /\ i + Len(prefix) - 1 <= Len(s)
    /\ SubSeq(s, i, i + Len(prefix) - 1) = prefix

\* Least index >= from whose character satisfies being in `chars`, or
\* Len(s) + 1 when there is none.
FirstOf(s, from, chars) ==
    LET hits == {i \in from..Len(s) : IsIn(CharAt(s, i), chars)}
    IN  IF hits = {} THEN Len(s) + 1
        ELSE CHOOSE i \in hits : \A j \in hits : i <= j

\* Greatest index whose character is c, or 0.
LastIndexOf(s, c) ==
    LET hits == {i \in 1..Len(s) : CharAt(s, i) = c}
    IN  IF hits = {} THEN 0
        ELSE CHOOSE i \in hits : \A j \in hits : i >= j

\* s.split(sep)[0]
SplitFirst(s, sep) == SubSeq(s, 1, FirstOf(s, 1, sep) - 1)

\* ------------------------------------------------------------------------
\* Node path (POSIX)
\* ------------------------------------------------------------------------

sep == "/"

\* The last path segment after removing trailing separators.
LastSegment(p) ==
    LET nonSep == {i \in 1..Len(p) : CharAt(p, i) # sep}
        end    == IF nonSep = {} THEN 0
                  ELSE CHOOSE i \in nonSep : \A j \in nonSep : i >= j
        seps   == {i \in 1..end : CharAt(p, i) = sep}
        start  == IF seps = {} THEN 1
                  ELSE 1 + (CHOOSE i \in seps : \A j \in seps : i >= j)
    IN  IF end = 0 THEN "" ELSE SubSeq(p, start, end)

\* path.extname: from the last "." of the last segment to its end; empty
\* when there is no ".", when the only "." is the segment's first character
\* or when the segment is "..".
extname(p) ==
    LET b == LastSegment(p)
        d == LastIndexOf(b, ".")
    IN  IF d <= 1 \/ b = ".." THEN "" ELSE SubSeq(b, d, Len(b))

\* p.split("/")
RECURSIVE Segments(_)
Segments(p) ==
    LET i == FirstOf(p, 1, sep)
    IN  IF i > Len(p) THEN <<p>>
        ELSE <<SubSeq(p, 1, i - 1)>> \o Segments(SubSeq(p, i + 1, Len(p)))

\* normalizeString: resolves "." and ".." segments and drops empty ones.
RECURSIVE NormalizeSegs(_, _, _)
NormalizeSegs(segs, acc, allowAboveRoot) ==
    IF segs = <<>> THEN acc
    ELSE LET s == Head(segs)
             rest == Tail(segs)
         IN  IF s = "" \/ s = "." THEN NormalizeSegs(rest, acc, allowAboveRoot)
             ELSE IF s = ".."
             THEN IF acc # <<>> /\ acc[Len(acc)] # ".."
                  THEN NormalizeSegs(rest, SubSeq(acc, 1, Len(acc) - 1),
                                     allowAboveRoot)
                  ELSE IF allowAboveRoot
                  THEN NormalizeSegs(rest, Append(acc, ".."), allowAboveRoot)
                  ELSE NormalizeSegs(rest, acc, allowAboveRoot)
             ELSE NormalizeSegs(rest, Append(acc, s), allowAboveRoot)

RECURSIVE JoinSegs(_)
JoinSegs(segs) ==
    IF segs = <<>> THEN ""
    ELSE IF Len(segs) = 1 THEN segs[1]
    ELSE segs[1] \o sep \o JoinSegs(Tail(segs))

\* path.normalize
normalize(p) ==
    LET isAbsolute == startsWithAt(p, 1, sep)
        trailing   == endsWith(p, sep)
        body       == JoinSegs(NormalizeSegs(Segments(p), <<>>, ~isAbsolute))
    IN  IF p = "" THEN "."
        ELSE IF body = ""
        THEN (IF isAbsolute THEN sep ELSE IF trailing THEN "./" ELSE ".")
        ELSE (IF isAbsolute THEN sep ELSE "") \o body
             \o (IF trailing THEN sep ELSE "")

\* path.join(a, b) for non-empty a and b
join(a, b) == normalize(a \o sep \o b)

\* ------------------------------------------------------------------------
\* URL protocol validator (utils/urlValidator.ts)
\* ------------------------------------------------------------------------

NULL == "<null>"

ALLOWED_PROTOCOLS == {"http:", "https:"}

\* Schemes whose URLs need a host ("special" schemes other than file).
HostSchemes == {"http:", "https:", "ftp:", "ws:", "wss:"}

INVALID == "<invalid>"

\* new URL(t).protocol, or INVALID when the constructor throws: a URL
\* without a base needs a scheme (a letter, then letters, digits, "+", "-",
\* "."; lower-cased by the parser) followed by ":", and an http(s) URL
\* needs a non-empty host after the optional slashes.
URLProtocol(t) ==
    LET colon  == FirstOf(t, 1, ":")
        scheme == SubSeq(t, 1, colon - 1)
        okScheme ==
            /\ colon <= Len(t)
            /\ scheme # ""
            /\ IsIn(CharAt(scheme, 1), UpperChars \o LowerChars)
            /\ \A i \in 1..Len(scheme) :
                  IsIn(CharAt(scheme, i),
                       UpperChars \o LowerChars \o DigitChars \o "+-.")
        protocol == toLowerCase(scheme) \o ":"
        rest     == SubSeq(t, colon + 1, Len(t))
        nonSlash == {i \in 1..Len(rest) : ~IsIn(CharAt(rest, i), "/\\")}
        hostAt   == IF nonSlash = {} THEN Len(rest) + 1
                    ELSE CHOOSE i \in nonSlash : \A j \in nonSlash : i <= j
        host     == SubSeq(rest, hostAt, FirstOf(rest, hostAt, "/\\?#") - 1)
    IN  IF ~okScheme THEN INVALID
        ELSE IF protocol \in HostSchemes /\ host = "" THEN INVALID
        ELSE protocol

\* validateUrlProtocol: [ok, value, error]; ok = FALSE is a thrown
\* URLSecurityError with message `error`.
validateUrlProtocolNoCheck(urlArg) ==
    [ok |-> TRUE, value |-> trim(urlArg), error |-> ""]

validateUrlProtocolReturnsInput(urlArg) ==
    LET trimmedUrl == trim(urlArg)
        protocol   == URLProtocol(trimmedUrl)
    IN  IF urlArg = "" \/ trimmedUrl = "" \/ protocol \notin ALLOWED_PROTOCOLS
        THEN [ok |-> FALSE, value |-> NULL, error |-> "rejected"]
        ELSE [ok |-> TRUE, value |-> urlArg, error |-> ""]

validateUrlProtocol(urlArg) ==
    LET trimmedUrl == trim(urlArg)
        protocol   == URLProtocol(trimmedUrl)
        URLSecurityError(m) == [ok |-> FALSE, value |-> NULL, error |-> m]
    IN  IF urlArg = "" THEN URLSecurityError("URL must be a non-empty string")
        ELSE IF trimmedUrl = ""
        THEN URLSecurityError("URL cannot be empty or whitespace only")
        ELSE IF protocol = INVALID
        THEN URLSecurityError("Invalid URL format: " \o trimmedUrl)
        ELSE IF protocol \notin ALLOWED_PROTOCOLS
        THEN URLSecurityError("URL protocol \"" \o protocol \o
                   "\" is not allowed. Only HTTP and HTTPS protocols are permitted.")
        ELSE [ok |-> TRUE, value |-> trimmedUrl, error |-> ""]

\* validateUrlsProtocol, lines 77-89: the loop over the array, collecting
\* the validated URLs and the failures.
RECURSIVE ValidateLoop(_, _, _, _)
ValidateLoop(urls, i, validatedUrls, errors) ==
    IF i > Len(urls)
    THEN [validatedUrls |-> validatedUrls, errors |-> errors]
    ELSE LET v == validateUrlProtocol(urls[i])
         IN  IF v.ok
             THEN ValidateLoop(urls, i + 1, Append(validatedUrls, v.value),
                               errors)
             ELSE ValidateLoop(urls, i + 1, validatedUrls,
                               Append(errors,
                                      [url |-> urls[i], error |-> v.error]))

\* Lines 93-95: errors.map((e, idx) => ...).join("\n"), from index idx on.
RECURSIVE errorDetailsOf(_, _)
errorDetailsOf(errors, idx) ==
    IF idx >= Len(errors) THEN ""
    ELSE "  " \o ToString(idx + 1) \o ". " \o errors[idx + 1].url \o ": "
         \o errors[idx + 1].error
         \o (IF idx + 1 < Len(errors) THEN "\n" ELSE "")
         \o errorDetailsOf(errors, idx + 1)

URLSecurityErrorOf(message) == [ok |-> FALSE, value |-> <<>>, error |-> message]

validateUrlsFailFast(urlsArg) ==
    IF ~urlsArg.isArray THEN URLSecurityErrorOf("URLs must be an array")
    ELSE IF Len(urlsArg.items) = 0
    THEN URLSecurityErrorOf("URLs array cannot be empty")
    ELSE LET r     == ValidateLoop(urlsArg.items, 1, <<>>, <<>>)
             first == SubSeq(r.errors, 1, 1)
         IN  IF Len(r.errors) > 0
             THEN URLSecurityErrorOf(
                      ToString(Len(first)) \o " URL(s) failed validation:\n"
                      \o errorDetailsOf(first, 0))
             ELSE [ok |-> TRUE, value |-> r.validatedUrls, error |-> ""]

\* validateUrlsProtocol: [ok, value, error]; ok = FALSE is a thrown
\* URLSecurityError with message `error`.
validateUrlsProtocol(urlsArg) ==
    IF ~urlsArg.isArray THEN URLSecurityErrorOf("URLs must be an array")
    ELSE IF Len(urlsArg.items) = 0
    THEN URLSecurityErrorOf("URLs array cannot be empty")
    ELSE LET r == ValidateLoop(urlsArg.items, 1, <<>>, <<>>)
         IN  IF Len(r.errors) > 0
             THEN URLSecurityErrorOf(
                      ToString(Len(r.errors)) \o " URL(s) failed validation:\n"
                      \o errorDetailsOf(r.errors, 0))
             ELSE [ok |-> TRUE, value |-> r.validatedUrls, error |-> ""]

\* ------------------------------------------------------------------------
\* Classification (downloadUrl, lines 150-365)
\* ------------------------------------------------------------------------

\* contentTypeHeader.split(";")[0].trim().toLowerCase()
contentTypeOf(contentTypeHeader) ==
    toLowerCase(trim(SplitFirst(contentTypeHeader, ";")))

\* contentDisposition.match(/filename[^;=\n]*=((['"]).*?\2|[^;\n]*)/i)[1],
\* or NULL when the expression does not match.
filenameMatch(cd) ==
    LET lower  == toLowerCase(cd)
        EqAt(i) == FirstOf(cd, i + 8, ";=\n")
        starts == {i \in 1..Len(cd) :
                     /\ startsWithAt(lower, i, "filename")
                     /\ EqAt(i) <= Len(cd)
                     /\ CharAt(cd, EqAt(i)) = "="}
        i0     == CHOOSE i \in starts : \A j \in starts : i <= j
        v      == EqAt(i0) + 1
        q      == CharAt(cd, v)
        lineEnd == FirstOf(cd, v, "\n\r")
        closes == {c \in (v + 1)..(lineEnd - 1) : CharAt(cd, c) = q}
        close  == CHOOSE c \in closes : \A d \in closes : c <= d
    IN  IF starts = {} THEN NULL
        ELSE IF v <= Len(cd) /\ IsIn(q, "'\"") /\ closes # {}
        THEN SubSeq(cd, v, close)
        ELSE SubSeq(cd, v, FirstOf(cd, v, ";\n") - 1)

\* serverFilename.replace(/^["']|["']$/g, "")
stripQuotes(s) ==
    LET a == IF s # "" /\ IsIn(CharAt(s, 1), "'\"") THEN 2 ELSE 1
        b == IF Len(s) >= a /\ IsIn(CharAt(s, Len(s)), "'\"")
             THEN Len(s) - 1 ELSE Len(s)
    IN  SubSeq(s, a, b)

\* Lines 154-175: the lower-cased extension of the Content-Disposition
\* filename, or NULL.
serverFilenameExtensionOf(contentDisposition) ==
    LET m   == filenameMatch(contentDisposition)
        ext == extname(stripQuotes(m))
    IN  IF contentDisposition = "" \/ m = NULL \/ ext = "" THEN NULL
        ELSE toLowerCase(ext)

contentTypeToExtension ==
    [t \in {"application/pdf", "application/zip",
            "application/x-zip-compressed", "application/x-tar",
            "application/gzip", "application/x-gzip", "application/json",
            "application/xml", "text/xml", "application/msword",
            "application/vnd.openxmlformats-officedocument.wordprocessingml.document",
            "application/vnd.ms-excel",
            "application/vnd.openxmlformats-officedocument.spreadsheetml.sheet",
            "application/vnd.ms-powerpoint",
            "application/vnd.openxmlformats-officedocument.presentationml.presentation",
            "application/octet-stream", "image/jpeg", "image/jpg",
            "image/png", "image/gif", "image/webp", "image/svg+xml",
            "image/bmp", "image/tiff", "text/plain", "text/html", "text/css",
            "text/javascript", "application/javascript", "text/csv"} |->
        CASE t = "application/pdf" -> ".pdf"
          [] t \in {"application/zip", "application/x-zip-compressed"} -> ".zip"
          [] t = "application/x-tar" -> ".tar"
          [] t \in {"application/gzip", "application/x-gzip"} -> ".gz"
          [] t = "application/json" -> ".json"
          [] t \in {"application/xml", "text/xml"} -> ".xml"
          [] t = "application/msword" -> ".doc"
          [] t = "application/vnd.openxmlformats-officedocument.wordprocessingml.document" -> ".docx"
          [] t = "application/vnd.ms-excel" -> ".xls"
          [] t = "application/vnd.openxmlformats-officedocument.spreadsheetml.sheet" -> ".xlsx"
          [] t = "application/vnd.ms-powerpoint" -> ".ppt"
          [] t = "application/vnd.openxmlformats-officedocument.presentationml.presentation" -> ".pptx"
          [] t = "application/octet-stream" -> ""
          [] t \in {"image/jpeg", "image/jpg"} -> ".jpg"
          [] t = "image/png" -> ".png"
          [] t = "image/gif" -> ".gif"
          [] t = "image/webp" -> ".webp"
          [] t = "image/svg+xml" -> ".svg"
          [] t = "image/bmp" -> ".bmp"
          [] t = "image/tiff" -> ".tiff"
          [] t = "text/plain" -> ".txt"
          [] t = "text/html" -> ".html"
          [] t = "text/css" -> ".css"
          [] t \in {"text/javascript", "application/javascript"} -> ".js"
          [] t = "text/csv" -> ".csv"]

extensionToContentType ==
    [e \in {".pdf", ".zip", ".tar", ".gz", ".json", ".xml", ".doc", ".docx",
            ".xls", ".xlsx", ".ppt", ".pptx", ".jpg", ".jpeg", ".png",
            ".gif", ".webp", ".svg", ".bmp", ".tiff", ".txt", ".html",
            ".htm", ".css", ".js", ".csv"} |->
        CASE e = ".pdf" -> "application/pdf"
          [] e = ".zip" -> "application/zip"
          [] e = ".tar" -> "application/x-tar"
          [] e = ".gz" -> "application/gzip"
          [] e = ".json" -> "application/json"
          [] e = ".xml" -> "application/xml"
          [] e = ".doc" -> "application/msword"
          [] e = ".docx" -> "application/vnd.openxmlformats-officedocument.wordprocessingml.document"
          [] e = ".xls" -> "application/vnd.ms-excel"
          [] e = ".xlsx" -> "application/vnd.openxmlformats-officedocument.spreadsheetml.sheet"
          [] e = ".ppt" -> "application/vnd.ms-powerpoint"
          [] e = ".pptx" -> "application/vnd.openxmlformats-officedocument.presentationml.presentation"
          [] e \in {".jpg", ".jpeg"} -> "image/jpeg"
          [] e = ".png" -> "image/png"
          [] e = ".gif" -> "image/gif"
          [] e = ".webp" -> "image/webp"
          [] e = ".svg" -> "image/svg+xml"
          [] e = ".bmp" -> "image/bmp"
          [] e = ".tiff" -> "image/tiff"
          [] e = ".txt" -> "text/plain"
          [] e \in {".html", ".htm"} -> "text/html"
          [] e = ".css" -> "text/css"
          [] e = ".js" -> "application/javascript"
          [] e = ".csv" -> "text/csv"]

serverSideScriptExtensions ==
    {".php", ".cfm", ".cfml", ".jsp", ".asp", ".aspx", ".java", ".py", ".rb",
     ".pl", ".cgi", ".do", ".action"}

\* Lines 265-272: the extension of the lower-cased URL string, NULL when
\* empty or blocklisted.
urlExtensionKeepScripts(urlArg) ==
    LET urlExtensionRaw == extname(toLowerCase(urlArg))
    IN  IF urlExtensionRaw # "" THEN urlExtensionRaw ELSE NULL

urlExtensionOf(urlArg) ==
    LET urlExtensionRaw == extname(toLowerCase(urlArg))
    IN  IF urlExtensionRaw # ""
           /\ toLowerCase(urlExtensionRaw) \notin serverSideScriptExtensions
        THEN urlExtensionRaw ELSE NULL

\* Line 273
pathExtensionOf(filePathArg) == extname(toLowerCase(filePathArg))

\* The path extension is tried before the URL extension.
effectiveContentTypePathFirst(contentType, urlExtension, pathExtension) ==
    IF contentType \in {"", "application/octet-stream", "text/plain"}
    THEN IF pathExtension \in DOMAIN extensionToContentType
         THEN extensionToContentType[pathExtension]
         ELSE IF urlExtension \in DOMAIN extensionToContentType
         THEN extensionToContentType[urlExtension]
         ELSE contentType
    ELSE contentType

\* Lines 277-295
effectiveContentTypeOf(contentType, urlExtension, pathExtension) ==
    IF contentType \in {"", "application/octet-stream", "text/plain"}
    THEN IF urlExtension \in DOMAIN extensionToContentType
         THEN extensionToContentType[urlExtension]
         ELSE IF pathExtension \in DOMAIN extensionToContentType
         THEN extensionToContentType[pathExtension]
         ELSE contentType
    ELSE contentType

NonText(type) == type # "text/html" /\ type # "text/plain"

\* Lines 301-314
isBinaryFileUrlPriority(urlExtension, serverFilenameExtension, effectiveContentType, pathExtension) ==
    IF urlExtension \in DOMAIN extensionToContentType
    THEN NonText(extensionToContentType[urlExtension])
    ELSE \/ serverFilenameExtension # NULL
         \/ /\ NonText(effectiveContentType)
            /\ effectiveContentType \in DOMAIN contentTypeToExtension
         \/ /\ pathExtension \in DOMAIN extensionToContentType
            /\ NonText(extensionToContentType[pathExtension])

isBinaryFileOf(urlExtension, serverFilenameExtension, effectiveContentType, pathExtension) ==
    \/ /\ urlExtension # NULL
       /\ urlExtension \in DOMAIN extensionToContentType
       /\ NonText(extensionToContentType[urlExtension])
    \/ serverFilenameExtension # NULL
    \/ /\ effectiveContentType # ""
       /\ NonText(effectiveContentType)
       /\ effectiveContentType \in DOMAIN contentTypeToExtension
    \/ /\ pathExtension # ""
       /\ pathExtension \in DOMAIN extensionToContentType
       /\ NonText(extensionToContentType[pathExtension])

\* Lines 321-332: urlExtension ?? serverFilenameExtension ??
\* (hasContentTypeMapping ? contentTypeExtension : undefined) ?? pathExtension
expectedExtensionTruthy(urlExtension, serverFilenameExtension, effectiveContentType, pathExtension) ==
    IF urlExtension # NULL THEN urlExtension
    ELSE IF serverFilenameExtension # NULL THEN serverFilenameExtension
    ELSE IF /\ effectiveContentType \in DOMAIN contentTypeToExtension
            /\ contentTypeToExtension[effectiveContentType] # ""
    THEN contentTypeToExtension[effectiveContentType]
    ELSE pathExtension

expectedExtensionOf(urlExtension, serverFilenameExtension, effectiveContentType, pathExtension) ==
    IF urlExtension # NULL THEN urlExtension
    ELSE IF serverFilenameExtension # NULL THEN serverFilenameExtension
    ELSE IF effectiveContentType # ""
            /\ effectiveContentType \in DOMAIN contentTypeToExtension
    THEN contentTypeToExtension[effectiveContentType]
    ELSE pathExtension

\* Lines 318, 334-365
finalFilePathAppendOnly(filePathArg, isBinaryFile, expectedExtension) ==
    LET currentExtension == toLowerCase(extname(filePathArg))
    IN  IF isBinaryFile /\ expectedExtension # ""
           /\ (currentExtension = ""
               \/ currentExtension # toLowerCase(expectedExtension))
        THEN IF endsWith(filePathArg, sep)
             THEN join(filePathArg, "download" \o expectedExtension)
             ELSE filePathArg \o expectedExtension
        ELSE filePathArg

finalFilePathOf(filePathArg, isBinaryFile, expectedExtension) ==
    LET currentExtension == toLowerCase(extname(filePathArg))
    IN  IF isBinaryFile /\ expectedExtension # ""
           /\ (currentExtension = ""
               \/ currentExtension # toLowerCase(expectedExtension))
        THEN IF endsWith(filePathArg, sep)
             THEN join(filePathArg, "download" \o expectedExtension)
             ELSE IF currentExtension = ""
             THEN filePathArg \o expectedExtension
             ELSE SubSeq(filePathArg, 1, Len(filePathArg) - Len(currentExtension))
                  \o expectedExtension
        ELSE filePathArg

\* The whole classification block as one record.
Classification(urlArg, filePathArg, contentTypeHeader, contentDisposition) ==
    LET contentType == contentTypeOf(contentTypeHeader)
        sfe  == serverFilenameExtensionOf(contentDisposition)
        uext == urlExtensionOf(urlArg)
        pext == pathExtensionOf(filePathArg)
        eff  == effectiveContentTypeOf(contentType, uext, pext)
        bin  == isBinaryFileOf(uext, sfe, eff, pext)
        exp  == expectedExtensionOf(uext, sfe, eff, pext)
    IN  [contentType |-> contentType,
         serverFilenameExtension |-> sfe,
         urlExtension |-> uext,
         pathExtension |-> pext,
         effectiveContentType |-> eff,
         isBinaryFile |-> bin,
         expectedExtension |-> exp,
         finalFilePath |-> finalFilePathOf(filePathArg, bin, exp)]

\* ------------------------------------------------------------------------
\* Inputs and environment outcomes
\* ------------------------------------------------------------------------

\* How many responses the page may emit while waitForResponse is pending.
MaxResponses == 2

Urls ==
    {"", "   ", "file:///etc/passwd", "javascript:alert(1)", "not a url",
     "https://example.com", "https://example.com/download",
     "https://example.com/page.html", "https://example.com/export.do",
     "https://example.com/a.pdf", "https://h/a.pdf?x=1",
     "https://h/page.php?id=1", " https://example.com/b.zip ",
     "HTTPS://EXAMPLE.COM/DOCS/", "https://h/x."}

FilePaths ==
    {"", "out/", "./out/", "out.zip/", "out/file", "out/file.txt",
     "out/FILE.PDF", "out/file.bin", "out/."}

ContentTypeHeaders ==
    {"", "application/octet-stream", "application/pdf", "application/json",
     "application/zip", "text/html; charset=utf-8", "text/plain",
     "application/x-custom", "Application/PDF", "TEXT/PLAIN; Charset=UTF-8"}

ContentDispositions ==
    {"", "attachment; filename=\"report.pdf\"",
     "attachment; filename=report.pdf", "attachment; filename=README"}

Statuses == {200, 404}

\* The narrower inputs of the session life cycle.
SessionUrls ==
    {"", "   ", "file:///etc/passwd", "javascript:alert(1)", "not a url",
     "https://example.com/a.pdf", "https://example.com/download",
     " https://example.com/b.zip "}

SessionFilePaths == {"", "out/", "out/file.txt"}

SessionContentTypes == {"", "application/pdf", "text/html; charset=utf-8"}

SessionDispositions == {"", "attachment; filename=\"report.pdf\""}

\* URLs a response observed by waitForResponse, and the page, may carry.
ResponseUrls == {"https://example.com/final", "https://example.com/asset"}

MkdirOutcomes == {"ok", "EEXIST", "EACCES"}

\* The longest array given to validateUrlsProtocol.
MaxUrls == 3

BatchUrls ==
    {"https://example.com/a.pdf", " https://example.com/b.zip ",
     "file:///etc/passwd", "not a url", "   "}

RECURSIVE SeqsUpTo(_, _)
SeqsUpTo(S, n) ==
    IF n = 0 THEN {<<>>}
    ELSE LET shorter == SeqsUpTo(S, n - 1)
         IN  shorter \cup {Append(q, x) : q \in shorter, x \in S}

BatchInputs ==
    {[isArray |-> FALSE, items |-> <<>>]}
    \cup {[isArray |-> TRUE, items |-> q] : q \in SeqsUpTo(BatchUrls, MaxUrls)}

\* validateUrlProtocol and the classification block are pure: their values
\* on the inputs above, computed once.
validated == [u \in Urls |-> validateUrlProtocol(u)]

classificationOf ==
    [u \in Urls, f \in FilePaths, ct \in ContentTypeHeaders,
     cd \in ContentDispositions |-> Classification(u, f, ct, cd)]

\* ------------------------------------------------------------------------
\* State of one download_url invocation
\* ------------------------------------------------------------------------

VARIABLES
    url, filePath, debug, waitForNavigation,   \* args / options
    pc,               \* the await the invocation is suspended at
    browser, page,    \* "null" | "open" | "closed"
    response,         \* "none" | "null" | "present": page.goto's result
    headers,          \* the headers the server answers with
    status,           \* the status the server answers with
    navigatedUrl,     \* the argument of page.goto, NULL before it
    classified,       \* whether lines 150-365 ran
    cls,              \* their results
    mkdirOutcome,     \* "none" or the outcome of fs.mkdir
    currentPageUrl,   \* page.url() at line 411, NULL before it
    responsesSeen,    \* responses tested by the waitForResponse predicate
    finalResponse,    \* "none" | "original" | "matched"
    matched,          \* the [url, status] of the matched response
    bodyFrom,         \* which response body() was read from
    written,          \* the path given to fs.writeFile, NULL if none
    steps,            \* the browser and file operations started, in order
    pendingError,     \* the error thrown inside try, NULL if none
    result,           \* "pending" | "ok" | "error"
    errorMessage

downloadVars ==
    <<url, filePath, debug, waitForNavigation, pc, browser, page, response,
      headers, status, navigatedUrl, classified, cls, mkdirOutcome,
      currentPageUrl, responsesSeen, finalResponse, matched, bodyFrom,
      written, steps, pendingError, result, errorMessage>>

argVars == <<url, filePath, debug, waitForNavigation, headers, status>>

\* ------------------------------------------------------------------------
\* State of one validateUrlsProtocol call
\* ------------------------------------------------------------------------

VARIABLES
    batchPc,       \* "idle" | "start" | "returned" | "revalidated"
    batchInput,    \* the argument: [isArray, items]
    batchResult,   \* [ok, value, error]: the returned array or the thrown message
    batchAgain     \* the same for a second call on the returned array

batchVars == <<batchPc, batchInput, batchResult, batchAgain>>

NoBatchResult == [ok |-> FALSE, value |-> <<>>, error |-> NULL]

BatchIdle ==
    /\ batchPc = "idle"
    /\ batchInput = [isArray |-> TRUE, items |-> <<>>]
    /\ batchResult = NoBatchResult
    /\ batchAgain = NoBatchResult

\* ------------------------------------------------------------------------
\* State of one browser_install call
\* ------------------------------------------------------------------------

VARIABLES
    toolPc,        \* "idle" | "start" | "awaiting" | "returned"
    toolArgs,      \* the argument object: [withDeps, force]
    toolCommand,   \* what was given to spawn: [command, args]
    toolChild,     \* "none" | "spawned" | "errored" | "closed"
    toolStdout,    \* stdout collected by the data handler
    toolStderr,    \* stderr collected by the data handler
    toolData,      \* number of data events delivered
    toolExit,      \* the code of the close event: <<>> before it, else <<code>>
    toolPromise,   \* the promise of executePlaywrightInstall
    toolResult,    \* <<>> before the return, else <<the returned object>>
    toolThrown     \* the message browserInstall rejected with, NULL if none

toolVars ==
    <<toolPc, toolArgs, toolCommand, toolChild, toolStdout, toolStderr,
      toolData, toolExit, toolPromise, toolResult, toolThrown>>

NoPromise == [state |-> "none", success |-> FALSE, output |-> "", error |-> ""]

NoCommand == [command |-> NULL, args |-> <<>>]

ToolAtRest ==
    /\ toolCommand = NoCommand
    /\ toolChild = "none"
    /\ toolStdout = "" /\ toolStderr = "" /\ toolData = 0
    /\ toolExit = <<>>
    /\ toolPromise = NoPromise
    /\ toolResult = <<>> /\ toolThrown = NULL

ToolIdle ==
    /\ toolPc = "idle"
    /\ toolArgs = [withDeps |-> "undefined", force |-> "undefined"]
    /\ ToolAtRest

\* ------------------------------------------------------------------------
\* State of one ensureBrowserInstalled call
\* ------------------------------------------------------------------------

VARIABLES
    ensPc,         \* "idle" | "start" | "installing" | "recheck" | "done"
    detections,    \* the checkBrowserInstallation calls made, in order
    spawns,        \* number of installer processes spawned
    instChild,     \* "none" | "spawned" | "failing" | "errored" | "closed"
    instStdout,    \* stdout collected by the data handler
    instStderr,    \* stderr collected by the data handler
    instData,      \* number of data events delivered
    instExit,      \* the code of the close event: <<>> before it, else <<code>>
    instPromise,   \* the promise of installBrowser
    ensResult,     \* "pending" | "ok" | "error"
    ensError       \* the message of the error thrown, NULL if none

ensVars ==
    <<ensPc, detections, spawns, instChild, instStdout, instStderr, instData,
      instExit, instPromise, ensResult, ensError>>

instVars == <<instChild, instStdout, instStderr, instData, instExit, instPromise>>

EnsureAtRest ==
    /\ detections = <<>>
    /\ spawns = 0
    /\ instChild = "none"
    /\ instStdout = "" /\ instStderr = "" /\ instData = 0
    /\ instExit = <<>>
    /\ instPromise = NoPromise
    /\ ensResult = "pending" /\ ensError = NULL

EnsureIdle == ensPc = "idle" /\ EnsureAtRest

NoClassification ==
    [contentType |-> NULL, serverFilenameExtension |-> NULL,
     urlExtension |-> NULL, pathExtension |-> NULL,
     effectiveContentType |-> NULL, isBinaryFile |-> FALSE,
     expectedExtension |-> NULL, finalFilePath |-> NULL]

\* ------------------------------------------------------------------------
\* State of concurrent download_url invocations
\* ------------------------------------------------------------------------

\* How many invocations are in flight together.
MaxInvocations == 2

Invocations == 1..MaxInvocations

VARIABLES
    invPc,         \* per invocation: the await it is suspended at
    invArgs,       \* per invocation: [url, filePath, debug]
    invHeaders,    \* per invocation: the headers of its response
    invBrowser,    \* per invocation: its local `browser`, 0 for null, else
                   \* the invocation whose service launched that browser
    invPage,       \* per invocation: its local `page`, 0 for null, else the
                   \* invocation whose service created that page
    invCls,        \* per invocation: the classification it computed
    launched,      \* per invocation: browsers its BrowserService launched
    browsers,      \* per launching invocation: "none" | "open" | "closed"
    pages,         \* per creating invocation: "none" | "open" | "closed"
    ops            \* every use of a browser or page: [by, op, on]

concVars ==
    <<invPc, invArgs, invHeaders, invBrowser, invPage, invCls, launched,
      browsers, pages, ops>>

NoHeaders == [contentType |-> NULL, contentDisposition |-> NULL]

NoArgs == [url |-> NULL, filePath |-> NULL, debug |-> FALSE]

ConcAtRest ==
    /\ invHeaders = [i \in Invocations |-> NoHeaders]
    /\ invBrowser = [i \in Invocations |-> 0]
    /\ invPage = [i \in Invocations |-> 0]
    /\ invCls = [i \in Invocations |-> NoClassification]
    /\ launched = [i \in Invocations |-> 0]
    /\ browsers = [i \in Invocations |-> "none"]
    /\ pages = [i \in Invocations |-> "none"]
    /\ ops = {}

ConcIdle ==
    /\ invPc = [i \in Invocations |-> "idle"]
    /\ invArgs = [i \in Invocations |-> NoArgs]
    /\ ConcAtRest

\* ------------------------------------------------------------------------
\* All variables, and what lies outside each component
\* ------------------------------------------------------------------------

vars == <<downloadVars, batchVars, toolVars, ensVars, concVars>>

otherVars == <<batchVars, toolVars, ensVars, concVars>>

outsideBatch == <<downloadVars, toolVars, ensVars, concVars>>

outsideTool == <<downloadVars, batchVars, ensVars, concVars>>

outsideEnsure == <<downloadVars, batchVars, toolVars, concVars>>

outsideConc == <<downloadVars, batchVars, toolVars, ensVars>>

sessionVars == <<browser, page>>

responseVars == <<response, navigatedUrl>>

waitVars == <<currentPageUrl, responsesSeen, finalResponse, matched>>

NoMatch == [url |-> NULL, status |-> 0]

InitWith(U, F, D, CT, CD, ST) ==
    /\ url \in U
    /\ filePath \in F
    /\ debug \in D
    /\ waitForNavigation \in BOOLEAN
    /\ headers \in [contentType : CT, contentDisposition : CD]
    /\ status \in ST
    /\ pc = "start"
    /\ browser = "null"
    /\ page = "null"
    /\ response = "none"
    /\ navigatedUrl = NULL
    /\ classified = FALSE
    /\ cls = NoClassification
    /\ mkdirOutcome = "none"
    /\ currentPageUrl = NULL
    /\ responsesSeen = 0
    /\ finalResponse = "none"
    /\ matched = NoMatch
    /\ bodyFrom = "none"
    /\ written = NULL
    /\ steps = <<>>
    /\ pendingError = NULL
    /\ result = "pending"
    /\ errorMessage = NULL

\* No download_url call is in progress.
DownloadIdle ==
    /\ url = "" /\ filePath = "" /\ debug = FALSE
    /\ waitForNavigation = FALSE
    /\ headers = [contentType |-> "", contentDisposition |-> ""]
    /\ status = 200
    /\ pc = "idle"
    /\ browser = "null" /\ page = "null"
    /\ response = "none" /\ navigatedUrl = NULL
    /\ classified = FALSE /\ cls = NoClassification
    /\ mkdirOutcome = "none"
    /\ currentPageUrl = NULL /\ responsesSeen = 0
    /\ finalResponse = "none" /\ matched = NoMatch
    /\ bodyFrom = "none" /\ written = NULL
    /\ steps = <<>>
    /\ pendingError = NULL /\ result = "pending" /\ errorMessage = NULL

OthersIdle == BatchIdle /\ ToolIdle /\ EnsureIdle /\ ConcIdle

\* One call of download_url, before its first statement.
Init ==
    /\ InitWith(SessionUrls, SessionFilePaths, BOOLEAN, SessionContentTypes,
                SessionDispositions, Statuses)
    /\ OthersIdle

\* The same with the wider inputs of the classification, which reads
\* neither the debug flag nor the status.
ClassifyInit ==
    /\ InitWith(Urls, FilePaths, {FALSE}, ContentTypeHeaders,
                ContentDispositions, {200})
    /\ OthersIdle

\* A throw inside the try block: control passes to the finally block.
Throw(message) ==
    /\ pendingError' = message
    /\ pc' = "finally"

\* A throw before the try block: the call rejects at once.
Reject(message) ==
    /\ result' = "error"
    /\ errorMessage' = message
    /\ pc' = "done"

\* Lines 83-96 and 98-124: argument checks and protocol validation, then
\* the invocation suspends at createBrowser.
CheckArgs ==
    /\ pc = "start"
    /\ LET v == validated[url]
       IN  IF url = "" THEN Reject("URL parameter is required")
                            /\ UNCHANGED steps
           ELSE IF filePath = ""
           THEN Reject("filePath parameter is required") /\ UNCHANGED steps
           ELSE IF ~v.ok
           THEN Reject(v.error) /\ steps' = Append(steps, "validate")
           ELSE /\ pc' = "createBrowser"
                /\ steps' = Append(steps, "validate")
                /\ UNCHANGED <<result, errorMessage>>
    /\ UNCHANGED <<otherVars, argVars, sessionVars, responseVars, waitVars, classified,
                   cls, mkdirOutcome, bodyFrom, written, pendingError>>

\* Line 128: browserService.createBrowser() resolves or rejects.
CreateBrowser ==
    /\ pc = "createBrowser"
    /\ steps' = Append(steps, "createBrowser")
    /\ \/ browser' = "open" /\ pc' = "createContext"
          /\ UNCHANGED pendingError
       \/ Throw("browser launch failed") /\ UNCHANGED browser
    /\ UNCHANGED <<otherVars, argVars, page, responseVars, waitVars, classified, cls,
                   mkdirOutcome, bodyFrom, written, result, errorMessage>>

\* Line 131: browserService.createContext(browser)
CreateContext ==
    /\ pc = "createContext"
    /\ steps' = Append(steps, "createContext")
    /\ \/ pc' = "createPage" /\ UNCHANGED pendingError
       \/ Throw("context creation failed")
    /\ UNCHANGED <<otherVars, argVars, sessionVars, responseVars, waitVars, classified,
                   cls, mkdirOutcome, bodyFrom, written, result,
                   errorMessage>>

\* Lines 134-141: createPage resolves (then setDefaultTimeout and the call
\* of page.goto) or rejects.
CreatePage ==
    /\ pc = "createPage"
    /\ steps' = Append(steps, "createPage")
    /\ \/ page' = "open" /\ pc' = "goto" /\ UNCHANGED pendingError
       \/ Throw("page creation failed") /\ UNCHANGED page
    /\ UNCHANGED <<otherVars, argVars, browser, responseVars, waitVars, classified, cls,
                   mkdirOutcome, bodyFrom, written, result, errorMessage>>

\* Lines 141-370: page.goto(url) rejects (navigation error or timeout),
\* resolves to null, or resolves to a response; with a response the
\* classification block runs and the invocation suspends at fs.mkdir.
GotoNullIgnored ==
    /\ response' = "null"
    /\ classified' = TRUE
    /\ cls' = classificationOf[url, filePath, "", ""]
    /\ steps' = steps \o <<"goto", "classify">>
    /\ pc' = "mkdir"
    /\ UNCHANGED pendingError

\* Lines 146-148: if (!response) throw
GotoNull ==
    /\ response' = "null"
    /\ Throw("Failed to get response from URL")
    /\ steps' = Append(steps, "goto")
    /\ UNCHANGED <<classified, cls>>

Goto ==
    /\ pc = "goto"
    /\ navigatedUrl' = url
    /\ \/ /\ Throw("page.goto: Timeout exceeded")
          /\ steps' = Append(steps, "goto")
          /\ UNCHANGED <<response, classified, cls>>
       \/ GotoNull
       \/ /\ response' = "present"
          /\ classified' = TRUE
          /\ cls' = classificationOf[url, filePath, headers.contentType,
                                     headers.contentDisposition]
          /\ steps' = steps \o <<"goto", "classify">>
          /\ pc' = "mkdir"
          /\ UNCHANGED pendingError
    /\ UNCHANGED <<otherVars, argVars, sessionVars, waitVars, mkdirOutcome, bodyFrom,
                   written, result, errorMessage>>

\* Lines 407-423 up to the next await: with a non-200 initial status the
\* invocation reads page.url() and suspends in waitForResponse; otherwise
\* finalResponse is the original response and it suspends in body().
PickResponse ==
    IF status # 200 /\ page # "null"
    THEN /\ \E u \in ResponseUrls : currentPageUrl' = u
         /\ pc' = "waitForResponse"
         /\ UNCHANGED <<responsesSeen, finalResponse, matched>>
    ELSE /\ finalResponse' = "original"
         /\ pc' = "body"
         /\ UNCHANGED <<currentPageUrl, responsesSeen, matched>>

\* Lines 370-391 / 407-423 / 442-445: fs.mkdir resolves or rejects; EEXIST
\* is ignored, any other error is rethrown wrapped. Then the binary branch
\* suspends at waitForNavigation, waitForResponse or body(), the text
\* branch at processLoadedPageContent.
MkdirExistsIsFatal ==
    /\ pc = "mkdir"
    /\ steps' = Append(steps, "mkdir")
    /\ \E o \in MkdirOutcomes :
          /\ mkdirOutcome' = o
          /\ IF o # "ok"
             THEN /\ Throw("Failed to create directory: " \o o)
                  /\ UNCHANGED waitVars
             ELSE /\ UNCHANGED pendingError
                  /\ IF cls.isBinaryFile
                     THEN IF waitForNavigation
                          THEN pc' = "waitForNavigation" /\ UNCHANGED waitVars
                          ELSE PickResponse
                     ELSE pc' = "process" /\ UNCHANGED waitVars
    /\ UNCHANGED <<otherVars, argVars, sessionVars, responseVars, classified, cls,
                   bodyFrom, written, result, errorMessage>>

Mkdir ==
    /\ pc = "mkdir"
    /\ steps' = Append(steps, "mkdir")
    /\ \E o \in MkdirOutcomes :
          /\ mkdirOutcome' = o
          /\ IF o \notin {"ok", "EEXIST"}
             THEN /\ Throw("Failed to create directory: " \o o)
                  /\ UNCHANGED waitVars
             ELSE /\ UNCHANGED pendingError
                  /\ IF cls.isBinaryFile
                     THEN IF waitForNavigation
                          THEN pc' = "waitForNavigation" /\ UNCHANGED waitVars
                          ELSE PickResponse
                     ELSE pc' = "process" /\ UNCHANGED waitVars
    /\ UNCHANGED <<otherVars, argVars, sessionVars, responseVars, classified, cls,
                   bodyFrom, written, result, errorMessage>>

\* Lines 389-405: page.waitForNavigation resolves, or rejects (timeout) and
\* the rejection is swallowed by .catch.
WaitForNavigation ==
    /\ pc = "waitForNavigation"
    /\ steps' = Append(steps, "waitForNavigation")
    /\ \E navigated \in BOOLEAN : PickResponse
    /\ UNCHANGED <<otherVars, argVars, sessionVars, responseVars, classified, cls,
                   mkdirOutcome, bodyFrom, written, pendingError, result,
                   errorMessage>>

\* Line 413: the waitForResponse predicate.
ResponsePredicateAnyUrl(r) == r.status = 200

ResponsePredicate(r) == r.url = currentPageUrl /\ r.status = 200

\* Lines 412-415: the page emits a response while waitForResponse is
\* pending; the wait resolves with it when the predicate holds.
ResponseEvent ==
    /\ pc = "waitForResponse"
    /\ responsesSeen < MaxResponses
    /\ \E r \in [url : ResponseUrls, status : Statuses] :
          /\ responsesSeen' = responsesSeen + 1
          /\ IF ResponsePredicate(r)
             THEN /\ finalResponse' = "matched"
                  /\ matched' = r
                  /\ pc' = "body"
                  /\ steps' = Append(steps, "waitForResponse")
             ELSE UNCHANGED <<finalResponse, matched, pc, steps>>
    /\ UNCHANGED <<otherVars, argVars, sessionVars, responseVars, classified, cls,
                   mkdirOutcome, currentPageUrl, bodyFrom, written,
                   pendingError, result, errorMessage>>

\* Lines 416-419: waitForResponse rejects (timeout, page closed); the catch
\* falls back to the original response.
WaitForResponseFails ==
    /\ pc = "waitForResponse"
    /\ finalResponse' = "original"
    /\ pc' = "body"
    /\ steps' = Append(steps, "waitForResponse")
    /\ UNCHANGED <<otherVars, argVars, sessionVars, responseVars, classified, cls,
                   mkdirOutcome, currentPageUrl, responsesSeen, matched,
                   bodyFrom, written, pendingError, result, errorMessage>>

\* The destination file is created before the body is read, so a failed
\* read leaves a file behind.
ReadBodyIntoOpenFile ==
    /\ pc = "body"
    /\ steps' = Append(steps, "body")
    /\ bodyFrom' = finalResponse
    /\ written' = cls.finalFilePath
    /\ \/ pc' = "writeBinary" /\ UNCHANGED pendingError
       \/ Throw("response.body: failed")
    /\ UNCHANGED <<otherVars, argVars, sessionVars, responseVars, classified, cls,
                   mkdirOutcome, waitVars, result, errorMessage>>

\* Line 423: finalResponse.body() resolves or rejects.
ReadBody ==
    /\ pc = "body"
    /\ steps' = Append(steps, "body")
    /\ bodyFrom' = finalResponse
    /\ \/ pc' = "writeBinary" /\ UNCHANGED pendingError
       \/ Throw("response.body: failed")
    /\ UNCHANGED <<otherVars, argVars, sessionVars, responseVars, classified, cls,
                   mkdirOutcome, waitVars, written, result, errorMessage>>

\* Lines 424-439 and 452-464: fs.writeFile(finalFilePath, ...) resolves
\* (the call returns its success result) or rejects.
WriteFile ==
    /\ pc \in {"writeBinary", "writeText"}
    /\ steps' = Append(steps, "writeFile")
    /\ \/ /\ written' = cls.finalFilePath
          /\ pc' = "finally"
          /\ UNCHANGED pendingError
       \/ /\ Throw("writeFile failed")
          /\ UNCHANGED written
    /\ UNCHANGED <<otherVars, argVars, sessionVars, responseVars, classified, cls,
                   mkdirOutcome, waitVars, bodyFrom, result, errorMessage>>

\* The text branch loads the URL again before extracting.
ProcessContentRenavigates ==
    /\ pc = "process"
    /\ steps' = steps \o <<"goto", "process">>
    /\ \/ pc' = "writeText" /\ UNCHANGED pendingError
       \/ \E e \in {"extraction failed", "Failed to process page content",
                    "processor crashed"} : Throw(e)
    /\ UNCHANGED <<otherVars, argVars, sessionVars, responseVars, classified, cls,
                   mkdirOutcome, waitVars, bodyFrom, written, result,
                   errorMessage>>

\* Lines 445-449: processLoadedPageContent resolves with success, resolves
\* with success = false (with or without an error text), or rejects.
ProcessContent ==
    /\ pc = "process"
    /\ steps' = Append(steps, "process")
    /\ \/ pc' = "writeText" /\ UNCHANGED pendingError
       \/ \E e \in {"extraction failed", "Failed to process page content",
                    "processor crashed"} : Throw(e)
    /\ UNCHANGED <<otherVars, argVars, sessionVars, responseVars, classified, cls,
                   mkdirOutcome, waitVars, bodyFrom, written, result,
                   errorMessage>>

\* BrowserService.cleanup(browser, page): closes the page and the browser it
\* is given, unless the service is in debug mode.
cleanupSession(b, p, debugMode) ==
    IF debugMode THEN <<b, p>>
    ELSE <<IF b = "open" THEN "closed" ELSE b,
           IF p = "open" THEN "closed" ELSE p>>

\* Lines 466-473: the finally block, then the call returns or rethrows.
FinallyOnlyOnSuccess ==
    /\ pc = "finally"
    /\ IF pendingError = NULL
       THEN /\ steps' = Append(steps, "cleanup")
            /\ browser' = cleanupSession(browser, page, debug)[1]
            /\ page' = cleanupSession(browser, page, debug)[2]
            /\ result' = "ok"
            /\ errorMessage' = NULL
       ELSE /\ result' = "error"
            /\ errorMessage' = pendingError
            /\ UNCHANGED <<steps, browser, page>>
    /\ pc' = "done"
    /\ UNCHANGED <<otherVars, argVars, responseVars, classified, cls, mkdirOutcome,
                   waitVars, bodyFrom, written, pendingError>>

Finally ==
    /\ pc = "finally"
    /\ steps' = Append(steps, "cleanup")
    /\ browser' = cleanupSession(browser, page, debug)[1]
    /\ page' = cleanupSession(browser, page, debug)[2]
    /\ IF pendingError = NULL
       THEN result' = "ok" /\ errorMessage' = NULL
       ELSE result' = "error" /\ errorMessage' = pendingError
    /\ pc' = "done"
    /\ UNCHANGED <<otherVars, argVars, responseVars, classified, cls, mkdirOutcome,
                   waitVars, bodyFrom, written, pendingError>>

Next ==
    \/ CheckArgs
    \/ CreateBrowser
    \/ CreateContext
    \/ CreatePage
    \/ Goto
    \/ Mkdir
    \/ WaitForNavigation
    \/ ResponseEvent
    \/ WaitForResponseFails
    \/ ReadBody
    \/ ProcessContent
    \/ WriteFile
    \/ Finally

Spec == Init /\ [][Next]_vars

\* The invocation up to the choice of its branch, over the wider inputs.
ClassifyNext ==
    \/ CheckArgs
    \/ CreateBrowser
    \/ CreateContext
    \/ CreatePage
    \/ Goto
    \/ Mkdir

ClassifySpec == ClassifyInit /\ [][ClassifyNext]_vars

\* Every await of the invocation settles: the browser operations carry
\* timeouts and the file operations complete.
FairSpec == Spec /\ WF_vars(Next)

\* ------------------------------------------------------------------------
\* validateUrlsProtocol applied to an array, and again to what it returned
\* ------------------------------------------------------------------------

BatchInit ==
    /\ DownloadIdle
    /\ ToolIdle
    /\ EnsureIdle
    /\ ConcIdle
    /\ batchPc = "start"
    /\ batchInput \in BatchInputs
    /\ batchResult = NoBatchResult
    /\ batchAgain = NoBatchResult

\* urlValidator.ts lines 65-102: the call returns the array or throws.
ValidateUrls ==
    /\ batchPc = "start"
    /\ batchResult' = validateUrlsProtocol(batchInput)
    /\ batchPc' = "returned"
    /\ UNCHANGED <<outsideBatch, batchInput, batchAgain>>

\* The returned array given to validateUrlsProtocol once more.
Revalidate ==
    /\ batchPc = "returned"
    /\ batchResult.ok
    /\ batchAgain' =
          validateUrlsProtocol([isArray |-> TRUE, items |-> batchResult.value])
    /\ batchPc' = "revalidated"
    /\ UNCHANGED <<outsideBatch, batchInput, batchResult>>

BatchNext ==
    \/ ValidateUrls
    \/ Revalidate

BatchSpec == BatchInit /\ [][BatchNext]_vars

\* ------------------------------------------------------------------------
\* browser_install (browserInstall.ts)
\* ------------------------------------------------------------------------

\* The two glyphs that open the text payloads (browserInstall.ts lines 73,
\* 85 and 98), written by their code points.
SuccessMarker == "[U+2705]"

FailureMarker == "[U+274C]"

\* Values a field of the argument object can hold; an absent argument
\* object reads every field as undefined (args?.withDeps).
ToolArgValues == {"true", "false", "undefined", "'true'"}

ToolArgObjects == [withDeps : ToolArgValues, force : ToolArgValues]

\* Exit codes of a process that ran; a process ended by a signal closes
\* with code null, written <<>>.
CloseCodes == {<<0>>, <<1>>, <<>>}

\* child_process reports a failed spawn as the negative errno (ENOENT).
SpawnErrno == 0 - 2

SpawnOutcomes == {"running", "fails", "throws"}

StdoutChunks == {"Downloading Chromium\n"}

StderrChunks == {"Failed to download Chromium\n"}

MaxData == 2

PlaywrightCliPath == "/app/node_modules/playwright/cli.js"

\* browserInstall.ts lines 41-42: only the boolean true switches a flag on.
IsTrue(v) == v = "true"

\* browserInstall.ts lines 48-58
InstallArgs(a) ==
    <<"playwright", "install">>
      \o (IF IsTrue(a.withDeps) THEN <<"--with-deps">> ELSE <<>>)
      \o (IF IsTrue(a.force) THEN <<"--force">> ELSE <<>>)
      \o <<"chromium">>

NotPlaywright(arg) == arg # "playwright"

\* browserInstall.ts lines 117-146: the local CLI when it resolves and
\* exists, npx otherwise.
CommandFor(localCli, installArgs) ==
    IF localCli
    THEN [command |-> "node",
          args |-> <<PlaywrightCliPath>> \o SelectSeq(installArgs, NotPlaywright)]
    ELSE [command |-> "npx", args |-> installArgs]

Resolved(success, output, error) ==
    [state |-> "resolved", success |-> success, output |-> output, error |-> error]

Rejected(message) ==
    [state |-> "rejected", success |-> FALSE, output |-> "", error |-> message]

Pending == [state |-> "pending", success |-> FALSE, output |-> "", error |-> ""]

\* A promise settles once: resolve on a settled promise does nothing.
Settle(promise, settlement) ==
    IF promise.state = "pending" THEN settlement ELSE promise

TextResult(text) == [content |-> <<[type |-> "text", text |-> text]>>]

ToolInit ==
    /\ DownloadIdle
    /\ BatchIdle
    /\ EnsureIdle
    /\ ConcIdle
    /\ toolPc = "start"
    /\ toolArgs \in ToolArgObjects
    /\ ToolAtRest

\* browserInstall.ts lines 40-62 and 110-186 up to the await: the command
\* is chosen and spawned, the handlers are registered.  A spawn that throws
\* does so inside the promise executor and rejects the promise.
ToolCall ==
    /\ toolPc = "start"
    /\ \E localCli \in BOOLEAN, outcome \in SpawnOutcomes :
          /\ toolCommand' = CommandFor(localCli, InstallArgs(toolArgs))
          /\ toolChild' = CASE outcome = "running" -> "spawned"
                            [] outcome = "fails" -> "failing"
                            [] OTHER -> "none"
          /\ toolPromise' = IF outcome = "throws"
                            THEN Rejected("spawn EPERM")
                            ELSE Pending
    /\ toolPc' = "awaiting"
    /\ UNCHANGED <<outsideTool, toolArgs, toolStdout, toolStderr, toolData,
                   toolExit, toolResult, toolThrown>>

\* browserInstall.ts lines 154-158
ToolStdoutData ==
    /\ toolChild = "spawned"
    /\ toolData < MaxData
    /\ \E chunk \in StdoutChunks : toolStdout' = toolStdout \o chunk
    /\ toolData' = toolData + 1
    /\ UNCHANGED <<outsideTool, toolPc, toolArgs, toolCommand, toolChild,
                   toolStderr, toolExit, toolPromise, toolResult, toolThrown>>

\* browserInstall.ts lines 160-164
ToolStderrData ==
    /\ toolChild = "spawned"
    /\ toolData < MaxData
    /\ \E chunk \in StderrChunks : toolStderr' = toolStderr \o chunk
    /\ toolData' = toolData + 1
    /\ UNCHANGED <<outsideTool, toolPc, toolArgs, toolCommand, toolChild,
                   toolStdout, toolExit, toolPromise, toolResult, toolThrown>>

\* browserInstall.ts lines 177-184: the 'error' event of a failed spawn.
ToolChildError ==
    /\ toolChild = "failing"
    /\ toolChild' = "errored"
    /\ toolPromise' =
          Settle(toolPromise,
                 Resolved(FALSE, toolStdout,
                          "spawn " \o toolCommand.command \o " ENOENT"))
    /\ UNCHANGED <<outsideTool, toolPc, toolArgs, toolCommand, toolStdout,
                   toolStderr, toolData, toolExit, toolResult, toolThrown>>

\* browserInstall.ts lines 166-175: the 'close' event, after a run with the
\* exit code of the process, after a failed spawn with the errno.
ToolChildClose ==
    /\ toolChild \in {"spawned", "errored"}
    /\ \E code \in IF toolChild = "spawned" THEN CloseCodes ELSE {<<SpawnErrno>>} :
          /\ toolExit' = code
          /\ toolPromise' =
                Settle(toolPromise, Resolved(code = <<0>>, toolStdout, toolStderr))
    /\ toolChild' = "closed"
    /\ UNCHANGED <<outsideTool, toolPc, toolArgs, toolCommand, toolStdout,
                   toolStderr, toolData, toolResult, toolThrown>>

\* The rejection propagates to the caller: no catch block.
ToolResumeNoCatch ==
    /\ toolPc = "awaiting"
    /\ toolPromise.state \in {"resolved", "rejected"}
    /\ IF toolPromise.state = "rejected"
       THEN /\ toolThrown' = toolPromise.error
            /\ toolResult' = toolResult
       ELSE /\ toolThrown' = toolThrown
            /\ toolResult' = <<TextResult(
                  IF toolPromise.success
                  THEN SuccessMarker \o " Successfully installed Chromium browser"
                         \o toolPromise.output
                  ELSE FailureMarker \o " Failed to install Chromium browser: "
                         \o toolPromise.error)>>
    /\ toolPc' = "returned"
    /\ UNCHANGED <<outsideTool, toolArgs, toolCommand, toolChild, toolStdout,
                   toolStderr, toolData, toolExit, toolPromise>>

\* browserInstall.ts lines 65-102: the code after the await, and the catch
\* block when the promise rejected.
ToolResume ==
    /\ toolPc = "awaiting"
    /\ toolPromise.state \in {"resolved", "rejected"}
    /\ toolResult' = <<TextResult(
          CASE toolPromise.state = "rejected" ->
                 FailureMarker \o " Chromium installation failed: "
                   \o toolPromise.error
                   \o "\n\nPlease check your internet connection and try again."
                   \o " You may also need to run with elevated privileges."
            [] toolPromise.success ->
                 SuccessMarker \o " Successfully installed Chromium browser"
                   \o (IF IsTrue(toolArgs.withDeps)
                       THEN " with system dependencies" ELSE "")
                   \o "\n\n" \o toolPromise.output
            [] OTHER ->
                 FailureMarker \o " Failed to install Chromium browser: "
                   \o toolPromise.error
                   \o "\n\nOutput:\n" \o toolPromise.output
                   \o "\n\nError:\n" \o toolPromise.error)>>
    /\ toolPc' = "returned"
    /\ UNCHANGED <<outsideTool, toolArgs, toolCommand, toolChild, toolStdout,
                   toolStderr, toolData, toolExit, toolPromise, toolThrown>>

ToolNext ==
    \/ ToolCall
    \/ ToolStdoutData
    \/ ToolStderrData
    \/ ToolChildError
    \/ ToolChildClose
    \/ ToolResume

ToolSpec == ToolInit /\ [][ToolNext]_vars

\* ------------------------------------------------------------------------
\* ensureBrowserInstalled (browserInstaller.ts)
\* ------------------------------------------------------------------------

\* What the probe of checkBrowserInstallation can do: launch and close
\* both succeed, launch throws, or close throws after a launch.
LaunchOutcomes == {"launched", "launchThrows", "closeThrows"}

\* What chromium.executablePath() and existsSync can give.
PathOutcomes == {"throws", "empty", "missing", "exists"}

\* Detection by the probe alone, without the executable-path fallback.
checkLaunchOnly(launch, execPath) == launch = "launched"

\* browserInstaller.ts lines 9-35
checkBrowserInstallation(launch, execPath) ==
    IF launch = "launched" THEN TRUE ELSE execPath = "exists"

Detection(launch, execPath) ==
    [launch |-> launch, path |-> execPath,
     installed |-> checkBrowserInstallation(launch, execPath)]

VerificationFailed == "Browser installation verification failed"

\* browserInstaller.ts line 80: code null prints as "null".
CodeText(code) == IF code = <<>> THEN "null" ELSE ToString(code[1])

ExitCodeFailed(code) == "Browser installation failed with exit code: " \o CodeText(code)

EnsureInit ==
    /\ DownloadIdle
    /\ BatchIdle
    /\ ToolIdle
    /\ ConcIdle
    /\ ensPc = "start"
    /\ EnsureAtRest

\* browserInstaller.ts lines 95-108 and 40-50: the first detection; when it
\* reports absence, installBrowser spawns the installer and registers its
\* handlers.
EnsureCheck ==
    /\ ensPc = "start"
    /\ \E launch \in LaunchOutcomes, execPath \in PathOutcomes :
          LET d == Detection(launch, execPath)
          IN  /\ detections' = Append(detections, d)
              /\ IF d.installed
                 THEN /\ ensPc' = "done"
                      /\ ensResult' = "ok"
                      /\ UNCHANGED <<spawns, instChild, instPromise>>
                 ELSE /\ ensPc' = "installing"
                      /\ ensResult' = ensResult
                      /\ spawns' = spawns + 1
                      /\ \E outcome \in SpawnOutcomes :
                            /\ instChild' = CASE outcome = "running" -> "spawned"
                                              [] outcome = "fails" -> "failing"
                                              [] OTHER -> "none"
                            /\ instPromise' = IF outcome = "throws"
                                              THEN Rejected("spawn EPERM")
                                              ELSE Pending
    /\ UNCHANGED <<outsideEnsure, instStdout, instStderr, instData, instExit,
                   ensError>>

\* browserInstaller.ts lines 54-59
InstStdoutData ==
    /\ instChild = "spawned"
    /\ instData < MaxData
    /\ \E chunk \in StdoutChunks : instStdout' = instStdout \o chunk
    /\ instData' = instData + 1
    /\ UNCHANGED <<outsideEnsure, ensPc, detections, spawns, instChild,
                   instStderr, instExit, instPromise, ensResult, ensError>>

\* browserInstaller.ts lines 62-67
InstStderrData ==
    /\ instChild = "spawned"
    /\ instData < MaxData
    /\ \E chunk \in StderrChunks : instStderr' = instStderr \o chunk
    /\ instData' = instData + 1
    /\ UNCHANGED <<outsideEnsure, ensPc, detections, spawns, instChild,
                   instStdout, instExit, instPromise, ensResult, ensError>>

\* browserInstaller.ts lines 85-88: the 'error' event of a failed spawn.
InstChildError ==
    /\ instChild = "failing"
    /\ instChild' = "errored"
    /\ instPromise' = Settle(instPromise, Rejected("spawn /bin/sh EAGAIN"))
    /\ UNCHANGED <<outsideEnsure, ensPc, detections, spawns, instStdout,
                   instStderr, instData, instExit, ensResult, ensError>>

\* browserInstaller.ts lines 70-82: the 'close' event.
InstChildClose ==
    /\ instChild \in {"spawned", "errored"}
    /\ \E code \in IF instChild = "spawned" THEN CloseCodes ELSE {<<SpawnErrno>>} :
          /\ instExit' = code
          /\ instPromise' =
                Settle(instPromise,
                       IF code = <<0>> THEN Resolved(TRUE, "", "")
                       ELSE Rejected(ExitCodeFailed(code)))
    /\ instChild' = "closed"
    /\ UNCHANGED <<outsideEnsure, ensPc, detections, spawns, instStdout,
                   instStderr, instData, ensResult, ensError>>

\* A failed install is followed by the re-check all the same.
EnsureResumeRechecksAnyway ==
    /\ ensPc = "installing"
    /\ instPromise.state \in {"resolved", "rejected"}
    /\ ensPc' = "recheck"
    /\ UNCHANGED <<outsideEnsure, detections, spawns, instVars, ensResult, ensError>>

\* browserInstaller.ts lines 108 and 119-123: the await of installBrowser
\* returns, or throws into the catch block, which rethrows.
EnsureResume ==
    /\ ensPc = "installing"
    /\ instPromise.state \in {"resolved", "rejected"}
    /\ IF instPromise.state = "rejected"
       THEN /\ ensPc' = "done"
            /\ ensResult' = "error"
            /\ ensError' = instPromise.error
       ELSE /\ ensPc' = "recheck"
            /\ UNCHANGED <<ensResult, ensError>>
    /\ UNCHANGED <<outsideEnsure, detections, spawns, instVars>>

\* The second detection is not consulted: an installer that exited with
\* code 0 is taken at its word.
EnsureRecheckTrusting ==
    /\ ensPc = "recheck"
    /\ \E launch \in LaunchOutcomes, execPath \in PathOutcomes :
          detections' = Append(detections, Detection(launch, execPath))
    /\ ensPc' = "done"
    /\ ensResult' = "ok"
    /\ UNCHANGED <<outsideEnsure, spawns, instVars, ensError>>

\* browserInstaller.ts lines 110-123: the second detection.
EnsureRecheck ==
    /\ ensPc = "recheck"
    /\ \E launch \in LaunchOutcomes, execPath \in PathOutcomes :
          LET d == Detection(launch, execPath)
          IN  /\ detections' = Append(detections, d)
              /\ IF d.installed
                 THEN /\ ensResult' = "ok"
                      /\ ensError' = ensError
                 ELSE /\ ensResult' = "error"
                      /\ ensError' = VerificationFailed
    /\ ensPc' = "done"
    /\ UNCHANGED <<outsideEnsure, spawns, instVars>>

EnsureNext ==
    \/ EnsureCheck
    \/ InstStdoutData
    \/ InstStderrData
    \/ InstChildError
    \/ InstChildClose
    \/ EnsureResume
    \/ EnsureRecheck

EnsureSpec == EnsureInit /\ [][EnsureNext]_vars

\* ------------------------------------------------------------------------
\* Concurrent download_url invocations
\* ------------------------------------------------------------------------

ConcUrls == {"https://example.com/a.pdf", "https://example.com/download"}

ConcFilePaths == {"out/"}

ConcContentTypes == {"", "application/pdf"}

ConcDispositions == {""}

ConcArgs == [url : ConcUrls, filePath : ConcFilePaths, debug : BOOLEAN]

ConcHeaders ==
    [contentType : ConcContentTypes, contentDisposition : ConcDispositions]

Upd(f, i, v) == [f EXCEPT ![i] = v]

Use(i, op, on) == [by |-> i, op |-> op, on |-> on]

\* A pool: an open browser launched for any invocation is handed out again.
pooledBrowser(i, pool) ==
    IF \E b \in Invocations : pool[b] = "open"
    THEN CHOOSE b \in Invocations : pool[b] = "open"
    ELSE i

\* BrowserService.createBrowser: the service of invocation i launches a
\* browser of its own; a browser is named by the invocation it was
\* launched for.
launchBrowser(i, pool) == i

\* Invocations past argument checking, each with its own arguments.
ConcInit ==
    /\ DownloadIdle
    /\ BatchIdle
    /\ ToolIdle
    /\ EnsureIdle
    /\ invPc = [i \in Invocations |-> "createBrowser"]
    /\ invArgs \in [Invocations -> ConcArgs]
    /\ ConcAtRest

ConcThrow(i) == invPc' = Upd(invPc, i, "finally")

\* Lines 114-128: new BrowserService(options), createBrowser.
CCreateBrowser(i) ==
    /\ invPc[i] = "createBrowser"
    /\ \/ LET b == launchBrowser(i, browsers)
          IN  /\ invBrowser' = Upd(invBrowser, i, b)
              /\ browsers' = Upd(browsers, b, "open")
              /\ launched' =
                    Upd(launched, i, launched[i] + (IF b = i THEN 1 ELSE 0))
              /\ invPc' = Upd(invPc, i, "createContext")
       \/ ConcThrow(i) /\ UNCHANGED <<invBrowser, browsers, launched>>
    /\ UNCHANGED <<outsideConc, invArgs, invHeaders, invPage, invCls, pages, ops>>

\* Line 131: createContext(browser)
CCreateContext(i) ==
    /\ invPc[i] = "createContext"
    /\ ops' = ops \cup {Use(i, "newContext", invBrowser[i])}
    /\ \/ invPc' = Upd(invPc, i, "createPage")
       \/ ConcThrow(i)
    /\ UNCHANGED <<outsideConc, invArgs, invHeaders, invBrowser, invPage,
                   invCls, launched, browsers, pages>>

\* Line 134: createPage(context, viewport)
CCreatePage(i) ==
    /\ invPc[i] = "createPage"
    /\ ops' = ops \cup {Use(i, "newPage", invBrowser[i])}
    /\ \/ /\ invPage' = Upd(invPage, i, i)
          /\ pages' = Upd(pages, i, "open")
          /\ invPc' = Upd(invPc, i, "goto")
       \/ ConcThrow(i) /\ UNCHANGED <<invPage, pages>>
    /\ UNCHANGED <<outsideConc, invArgs, invHeaders, invBrowser, invCls,
                   launched, browsers>>

\* Lines 141-365 with the classification reading `used` where the response
\* of the invocation carried `received`.
CNavigate(i, received, used) ==
    /\ invPc[i] = "goto"
    /\ ops' = ops \cup {Use(i, "goto", invPage[i])}
    /\ invHeaders' = Upd(invHeaders, i, received)
    /\ invCls' =
          Upd(invCls, i,
              classificationOf[invArgs[i].url, invArgs[i].filePath,
                               used.contentType, used.contentDisposition])
    /\ invPc' = Upd(invPc, i, "persist")
    /\ UNCHANGED <<outsideConc, invArgs, invBrowser, invPage, launched,
                   browsers, pages>>

CGotoFails(i) ==
    /\ invPc[i] = "goto"
    /\ ops' = ops \cup {Use(i, "goto", invPage[i])}
    /\ ConcThrow(i)
    /\ UNCHANGED <<outsideConc, invArgs, invHeaders, invBrowser, invPage,
                   invCls, launched, browsers, pages>>

\* A response without a content type is classified with the content type
\* some other invocation received.
CGotoSharedHeaders(i) ==
    \/ CGotoFails(i)
    \/ \E h \in ConcHeaders :
          \/ CNavigate(i, h, h)
          \/ /\ h.contentType = ""
             /\ \E j \in Invocations \ {i} :
                   /\ invHeaders[j] # NoHeaders
                   /\ CNavigate(i, h, invHeaders[j])

\* Lines 141-365: page.goto rejects or gives no response, or gives the
\* response whose headers and the arguments are classified.
CGoto(i) ==
    \/ CGotoFails(i)
    \/ \E h \in ConcHeaders : CNavigate(i, h, h)

\* Lines 366-453: the body of the response (or the loaded page) is read
\* and written to the final path.
CPersist(i) ==
    /\ invPc[i] = "persist"
    /\ ops' = ops \cup {Use(i, "read", invPage[i])}
    /\ invPc' = Upd(invPc, i, "finally")
    /\ UNCHANGED <<outsideConc, invArgs, invHeaders, invBrowser, invPage,
                   invCls, launched, browsers, pages>>

\* Lines 466-473: browserService.cleanup(browser, page).
CFinally(i) ==
    /\ invPc[i] = "finally"
    /\ LET b == invBrowser[i]
           p == invPage[i]
           after == cleanupSession(IF b = 0 THEN "null" ELSE browsers[b],
                                   IF p = 0 THEN "null" ELSE pages[p],
                                   invArgs[i].debug)
       IN  /\ browsers' = IF b = 0 THEN browsers ELSE Upd(browsers, b, after[1])
           /\ pages' = IF p = 0 THEN pages ELSE Upd(pages, p, after[2])
           /\ ops' = ops
                \cup (IF b # 0 /\ ~invArgs[i].debug
                      THEN {Use(i, "closeBrowser", b)} ELSE {})
                \cup (IF p # 0 /\ ~invArgs[i].debug
                      THEN {Use(i, "closePage", p)} ELSE {})
    /\ invPc' = Upd(invPc, i, "done")
    /\ UNCHANGED <<outsideConc, invArgs, invHeaders, invBrowser, invPage,
                   invCls, launched>>

ConcNext ==
    \E i \in Invocations :
       \/ CCreateBrowser(i)
       \/ CCreateContext(i)
       \/ CCreatePage(i)
       \/ CGoto(i)
       \/ CPersist(i)
       \/ CFinally(i)

ConcSpec == ConcInit /\ [][ConcNext]_vars

\* ------------------------------------------------------------------------
\* Vocabulary of the properties
\* ------------------------------------------------------------------------

Occurrences(seq, x) == Cardinality({i \in 1..Len(seq) : seq[i] = x})

EnteredTry == Occurrences(steps, "createBrowser") > 0

BinaryPcs == {"waitForNavigation", "waitForResponse", "body", "writeBinary"}

TookBinaryBranch ==
    pc \in BinaryPcs \/ Occurrences(steps, "body") > 0
    \/ Occurrences(steps, "waitForNavigation") > 0
    \/ Occurrences(steps, "waitForResponse") > 0

\* The pathname of an absolute hierarchical URL: what follows the authority,
\* up to the query or fragment.
UrlPathname(u) ==
    LET t      == trim(u)
        colon  == FirstOf(t, 1, ":")
        rest   == SubSeq(t, colon + 1, Len(t))
        nonSlash == {i \in 1..Len(rest) : CharAt(rest, i) # "/"}
        hostAt == IF nonSlash = {} THEN Len(rest) + 1
                  ELSE CHOOSE i \in nonSlash : \A j \in nonSlash : i <= j
        pathAt == FirstOf(rest, hostAt, "/?#")
        path   == SubSeq(rest, pathAt, FirstOf(rest, pathAt, "?#") - 1)
    IN  IF path = "" THEN "/" ELSE path

\* The URL names no file extension: its pathname has none.
UrlCarriesNoExtension(u) == extname(UrlPathname(u)) = ""

\* The extensions and content types the tables map to something other than
\* text/html and text/plain, written out.
BinaryExtensions ==
    {".pdf", ".zip", ".tar", ".gz", ".json", ".xml", ".doc", ".docx", ".xls",
     ".xlsx", ".ppt", ".pptx", ".jpg", ".jpeg", ".png", ".gif", ".webp",
     ".svg", ".bmp", ".tiff", ".css", ".js", ".csv"}

BinaryContentTypes == DOMAIN contentTypeToExtension \ {"text/html", "text/plain"}

\* ------------------------------------------------------------------------
\* C1
\* ------------------------------------------------------------------------

RejectedArguments ==
    \/ url = ""
    \/ filePath = ""
    \/ URLProtocol(trim(url)) \notin {"http:", "https:"}

\* C1: a download_url call whose url is empty, whose filePath is empty, or
\* whose url is unparsable or not http/https fails with an error, and no
\* browser is created and no navigation, directory creation or file write
\* happens in that execution.
C1_RejectedBeforeAnyEffect ==
    RejectedArguments =>
        /\ pc \in {"start", "done"}
        /\ pc = "done" => result = "error" /\ errorMessage # NULL
        /\ browser = "null" /\ page = "null"
        /\ navigatedUrl = NULL
        /\ mkdirOutcome = "none"
        /\ written = NULL
        /\ \A i \in 1..Len(steps) : steps[i] = "validate"

C1_Witness ==
    /\ url = "file:///etc/passwd"
    /\ filePath # ""
    /\ pc = "done"
    /\ result = "error"

\* ------------------------------------------------------------------------
\* C2
\* ------------------------------------------------------------------------

\* C2: for a response with content-type application/pdf and a request URL
\* ending in .html, isBinaryFile is false and the text-extraction branch is
\* taken, not the binary-download branch.
C2_HtmlUrlWinsOverPdfType ==
    (/\ classified
     /\ response = "present"
     /\ cls.contentType = "application/pdf"
     /\ endsWith(url, ".html"))
    => ~cls.isBinaryFile /\ ~TookBinaryBranch

\* ------------------------------------------------------------------------
\* C3
\* ------------------------------------------------------------------------

\* C3: for content-type application/octet-stream and content-disposition
\* attachment; filename="report.pdf" (quoted or unquoted), fetched from a URL
\* that carries no file extension of its own, isBinaryFile is true and
\* expectedExtension is ".pdf".
C3_DispositionFilenameGivesPdf ==
    (/\ classified
     /\ response = "present"
     /\ cls.contentType = "application/octet-stream"
     /\ headers.contentDisposition \in
            {"attachment; filename=\"report.pdf\"",
             "attachment; filename=report.pdf"}
     /\ UrlCarriesNoExtension(url))
    => cls.isBinaryFile /\ cls.expectedExtension = ".pdf"

\* ------------------------------------------------------------------------
\* C4
\* ------------------------------------------------------------------------

C4_Case ==
    /\ classified
    /\ response = "present"
    /\ headers.contentType = "application/json"
    /\ headers.contentDisposition = ""
    /\ LET lower == toLowerCase(url)
       IN  \E e \in serverSideScriptExtensions : endsWith(lower, e)

\* C4: for a URL ending in a blocklisted server-side-script extension, with
\* content-type application/json and no content-disposition, the URL
\* extension is discarded, the effective content type stays
\* application/json, isBinaryFile is true and the expected extension is
\* ".json".
C4_ScriptUrlJson ==
    C4_Case =>
        /\ cls.urlExtension = NULL
        /\ cls.effectiveContentType = "application/json"
        /\ cls.isBinaryFile
        /\ cls.expectedExtension = ".json"

C4_Witness ==
    /\ C4_Case
    /\ url = "https://example.com/export.do"
    /\ cls.finalFilePath = "out/download.json"
    /\ pc = "body"

\* ------------------------------------------------------------------------
\* C5
\* ------------------------------------------------------------------------

C5_NoSignal ==
    /\ classified
    /\ cls.urlExtension = NULL
    /\ cls.serverFilenameExtension = NULL
    /\ cls.contentType = ""
    /\ cls.pathExtension = ""

C6_EmptyMapping ==
    /\ classified
    /\ cls.urlExtension = NULL
    /\ cls.serverFilenameExtension = NULL
    /\ cls.effectiveContentType = "application/octet-stream"

\* C6: expectedExtension is the first available of the URL extension, the
\* content-disposition filename extension, the content-type-table entry of
\* the effective content type and the path extension; the empty table entry
\* of application/octet-stream counts as available: expectedExtension is
\* then empty, the path extension is not used and the destination path is
\* unchanged.
C6_ExpectedExtensionPriority ==
    classified =>
        /\ cls.urlExtension # NULL => cls.expectedExtension = cls.urlExtension
        /\ cls.urlExtension = NULL /\ cls.serverFilenameExtension # NULL =>
              cls.expectedExtension = cls.serverFilenameExtension
        /\ (/\ cls.urlExtension = NULL
            /\ cls.serverFilenameExtension = NULL
            /\ cls.effectiveContentType \in DOMAIN contentTypeToExtension) =>
              cls.expectedExtension =
                  contentTypeToExtension[cls.effectiveContentType]
        /\ (/\ cls.urlExtension = NULL
            /\ cls.serverFilenameExtension = NULL
            /\ cls.effectiveContentType \notin DOMAIN contentTypeToExtension) =>
              cls.expectedExtension = cls.pathExtension
        /\ C6_EmptyMapping =>
              cls.expectedExtension = "" /\ cls.finalFilePath = filePath

C6_Witness ==
    /\ C6_EmptyMapping
    /\ cls.pathExtension = ".bin"
    /\ cls.isBinaryFile
    /\ cls.finalFilePath = "out/file.bin"
    /\ pc \in BinaryPcs

\* ------------------------------------------------------------------------
\* C7
\* ------------------------------------------------------------------------

CurrentExtension == toLowerCase(extname(filePath))

C7_Rewrites ==
    /\ classified
    /\ cls.isBinaryFile
    /\ cls.expectedExtension # ""
    /\ CurrentExtension # toLowerCase(cls.expectedExtension)

WithoutExtension(p) == SubSeq(p, 1, Len(p) - Len(extname(p)))

LastStep == IF steps = <<>> THEN NULL ELSE steps[Len(steps)]

Acquiring == pc = "createBrowser" \/ EnteredTry

CleanedUpOnce == Occurrences(steps, "cleanup") = 1 /\ LastStep = "cleanup"

\* C8: every invocation that starts acquiring a browser session eventually
\* runs the cleanup step, exactly once and after its last browser or file
\* operation, whatever the outcome; the session is left open only in debug
\* mode.
C8_CleanupAlwaysRuns ==
    /\ [](Occurrences(steps, "cleanup") > 0 =>
             CleanedUpOnce /\ pc = "done" /\ EnteredTry)
    /\ [](pc = "done" /\ EnteredTry =>
             /\ CleanedUpOnce
             /\ ~debug => browser # "open" /\ page # "open"
             /\ debug => browser # "closed" /\ page # "closed")
    /\ (Acquiring ~> (pc = "done" /\ CleanedUpOnce))

C8_Witness ==
    /\ pc = "done"
    /\ errorMessage = "writeFile failed"
    /\ CleanedUpOnce
    /\ ~debug
    /\ browser = "closed"
    /\ page = "closed"

\* ------------------------------------------------------------------------
\* C9
\* ------------------------------------------------------------------------

\* C9: when the single page navigation returns no response the call fails
\* with an error, no classification, directory creation or file write takes
\* place, and the session is still cleaned up.
C9_NullResponseIsFatal ==
    response = "null" =>
        /\ Occurrences(steps, "goto") = 1
        /\ ~classified
        /\ cls = NoClassification
        /\ mkdirOutcome = "none"
        /\ bodyFrom = "none"
        /\ written = NULL
        /\ pc \in {"finally", "done"}
        /\ pendingError = "Failed to get response from URL"
        /\ pc = "done" =>
              /\ result = "error"
              /\ errorMessage = "Failed to get response from URL"
              /\ CleanedUpOnce

C9_Witness ==
    /\ response = "null"
    /\ pc = "done"
    /\ result = "error"
    /\ LastStep = "cleanup"
    /\ browser = "closed"

\* ------------------------------------------------------------------------
\* C10
\* ------------------------------------------------------------------------

\* C10: in the binary branch neither wait aborts the call; the wait for a
\* 200 response is made only when the initial status is not 200, and
\* resolves only with a response of status 200 whose URL is the page's
\* current URL; the body is read from that response when the wait succeeds
\* and from the original response when it fails; with an initial status of
\* 200 no such wait is made.
C10_WaitsAreBestEffort ==
    /\ LastStep \in {"waitForNavigation", "waitForResponse"} =>
          pendingError = NULL /\ pc \in {"waitForResponse", "body"}
    /\ Occurrences(steps, "waitForNavigation") > 0 =>
          waitForNavigation /\ cls.isBinaryFile
    /\ (\/ pc = "waitForResponse"
        \/ currentPageUrl # NULL
        \/ responsesSeen > 0
        \/ Occurrences(steps, "waitForResponse") > 0) =>
          status # 200 /\ cls.isBinaryFile
    /\ finalResponse = "matched" =>
          /\ matched.status = 200
          /\ matched.url = currentPageUrl
          /\ responsesSeen > 0
    /\ finalResponse = "original" =>
          /\ matched = NoMatch
          /\ status # 200 => Occurrences(steps, "waitForResponse") = 1
    /\ bodyFrom # "none" => bodyFrom = finalResponse
    /\ written # NULL /\ cls.isBinaryFile => bodyFrom \in {"original", "matched"}

C10_Witness ==
    /\ status = 404
    /\ waitForNavigation
    /\ responsesSeen > 1
    /\ bodyFrom = "matched"
    /\ written # NULL
    /\ result = "ok"

\* ------------------------------------------------------------------------
\* C11
\* ------------------------------------------------------------------------

AfterMkdirPcs == {"waitForNavigation", "waitForResponse", "body", "process"}

\* C11: an already-exists error of the directory creation is swallowed and
\* the call goes on to persist the file; any other directory-creation error
\* makes the call fail with an error that wraps the original message, and
\* no file is written in that execution.
C11_MkdirErrors ==
    /\ mkdirOutcome = "EEXIST" =>
          /\ LastStep = "mkdir" => pendingError = NULL /\ pc \in AfterMkdirPcs
          /\ pendingError # "Failed to create directory: EEXIST"
    /\ mkdirOutcome \notin {"none", "ok", "EEXIST"} =>
          /\ pendingError = "Failed to create directory: " \o mkdirOutcome
          /\ endsWith(pendingError, mkdirOutcome)
          /\ written = NULL
          /\ bodyFrom = "none"
          /\ pc \in {"finally", "done"}
          /\ LastStep \in {"mkdir", "cleanup"}
          /\ pc = "done" => result = "error" /\ errorMessage = pendingError

C11_Witness ==
    /\ mkdirOutcome = "EEXIST"
    /\ written # NULL
    /\ result = "ok"
    /\ pc = "done"

\* ------------------------------------------------------------------------
\* C16
\* ------------------------------------------------------------------------

\* The lines of a text.
RECURSIVE LinesOf(_)
LinesOf(text) ==
    LET nl == FirstOf(text, 1, "\n")
    IN  IF nl > Len(text) THEN <<text>>
        ELSE <<SubSeq(text, 1, nl - 1)>>
             \o LinesOf(SubSeq(text, nl + 1, Len(text)))

FailsValidation(u) == URLProtocol(trim(u)) \notin {"http:", "https:"}

\* The elements of the array that fail validation, in input order.
Offending(items) == SelectSeq(items, FailsValidation)

BatchReturned == batchPc \in {"returned", "revalidated"}

\* C16: for a non-empty array of which K >= 1 elements fail validation,
\* validateUrlsProtocol throws one error whose message gives the count K and
\* then exactly K entries, in input order, each naming its URL and the
\* reason; valid URLs produce no entry, and with K = 0 the call succeeds.
C16_AggregateEnumeratesAllFailures ==
    (BatchReturned /\ batchInput.isArray /\ Len(batchInput.items) > 0) =>
        LET bad   == Offending(batchInput.items)
            K     == Len(bad)
            lines == LinesOf(batchResult.error)
        IN  /\ K = 0 <=> batchResult.ok
            /\ K >= 1 =>
                  /\ Len(lines) = K + 1
                  /\ lines[1] = ToString(K) \o " URL(s) failed validation:"
                  /\ \A k \in 1..K :
                        lines[k + 1] =
                            "  " \o ToString(k) \o ". " \o bad[k] \o ": "
                            \o validated[bad[k]].error

C16_Witness ==
    /\ batchPc = "returned"
    /\ batchInput.items =
          <<"file:///etc/passwd", "https://example.com/a.pdf", "not a url">>
    /\ ~batchResult.ok
    /\ Len(LinesOf(batchResult.error)) = Len(Offending(batchInput.items)) + 1

\* ------------------------------------------------------------------------
\* C17
\* ------------------------------------------------------------------------

\* C17: on success validateUrlProtocol returns its input trimmed, and
\* validateUrlsProtocol an array of the same length and order whose elements
\* are the trimmed inputs; validating a returned value again returns that
\* same value.
C17_ReturnsTrimmedAndIdempotent ==
    /\ (BatchReturned /\ batchResult.ok) =>
          /\ Len(batchResult.value) = Len(batchInput.items)
          /\ \A i \in 1..Len(batchInput.items) :
                /\ batchResult.value[i] = trim(batchInput.items[i])
                /\ validated[batchInput.items[i]] =
                      [ok |-> TRUE, value |-> trim(batchInput.items[i]),
                       error |-> ""]
                /\ validateUrlProtocol(batchResult.value[i]) =
                      [ok |-> TRUE, value |-> batchResult.value[i],
                       error |-> ""]
    /\ batchPc = "revalidated" =>
          /\ batchAgain.ok
          /\ batchAgain.value = batchResult.value

C17_Witness ==
    /\ batchPc = "revalidated"
    /\ batchInput.items =
          <<" https://example.com/b.zip ", "https://example.com/a.pdf">>
    /\ batchAgain.value =
          <<"https://example.com/b.zip", "https://example.com/a.pdf">>

\* ------------------------------------------------------------------------
\* C20
\* ------------------------------------------------------------------------

\* The extension of the URL's path component, lower-cased, and absent when
\* the path has none or it is a server-side-script extension.
PathComponentExtension(u) ==
    LET e == toLowerCase(extname(UrlPathname(u)))
    IN  IF e = "" \/ e \in serverSideScriptExtensions THEN NULL ELSE e

\* C20: the URL extension signal is the extension of the URL's path
\* component only: none when the path has no extension, unchanged by a
\* query string or fragment after the path, and none when the path ends in
\* a server-side-script extension.
C20_UrlExtensionFromPathOnly ==
    classified => cls.urlExtension = PathComponentExtension(url)

\* ------------------------------------------------------------------------
\* C12
\* ------------------------------------------------------------------------

ToolReturned == toolPc = "returned"

ExitedWithZero == toolChild = "closed" /\ toolExit = <<0>>

IsTextResult(r) ==
    /\ DOMAIN r = {"content"}
    /\ Len(r.content) = 1
    /\ DOMAIN r.content[1] = {"type", "text"}
    /\ r.content[1].type = "text"

ResultText == toolResult[1].content[1].text

\* C12: browser_install never throws or rejects to its caller: for every
\* argument object and every installer behaviour (exit code 0, another exit
\* code, an 'error' event, a spawn that throws, 'error' followed by
\* 'close') it returns one text result, whose text starts with the success
\* marker exactly when the installer process exited with code 0 and with
\* the failure marker otherwise.
C12_NeverThrowsMarkerByExitCode ==
    /\ toolThrown = NULL
    /\ ToolReturned =>
          /\ Len(toolResult) = 1
          /\ IsTextResult(toolResult[1])
          /\ startsWithAt(ResultText, 1, SuccessMarker) <=> ExitedWithZero
          /\ ~ExitedWithZero => startsWithAt(ResultText, 1, FailureMarker)

\* A spawn that threw, reported as a failure text.
C12_Witness ==
    /\ ToolReturned
    /\ toolPromise.state = "rejected"
    /\ startsWithAt(ResultText, 1, FailureMarker \o " Chromium installation failed: spawn EPERM")

\* ------------------------------------------------------------------------
\* C13
\* ------------------------------------------------------------------------

Contains(s, sub) == \E i \in 1..(Len(s) + 1) : startsWithAt(s, i, sub)

InstallFailedOnExitCode ==
    /\ instChild = "closed"
    /\ instExit # <<0>>
    /\ instPromise.state = "rejected"
    /\ instPromise.error = ExitCodeFailed(instExit)

\* browser_install reports a non-zero exit code with the captured stderr,
\* and resolves with success only on exit code 0.
ToolFailureCarriesStderr ==
    /\ toolPromise.state = "resolved" /\ toolPromise.success => ExitedWithZero
    /\ (ToolReturned /\ toolChild = "closed" /\ toolExit # <<0>>) =>
          /\ startsWithAt(ResultText, 1, FailureMarker)
          /\ Contains(ResultText, toolStderr)

\* C13: the install step resolves successfully only when the installer
\* process exits with code 0; on any other exit code it fails, and the
\* failure it reports (the rejection error of installBrowser) carries the
\* stderr captured from the installer process.
C13_FailureCarriesStderr ==
    /\ instPromise.state = "resolved" => instExit = <<0>>
    /\ (instChild = "closed" /\ instExit # <<0>>) =>
          /\ instPromise.state = "rejected"
          /\ Contains(instPromise.error, instStderr)
    /\ (ensResult = "error" /\ InstallFailedOnExitCode) =>
          Contains(ensError, instStderr)

\* ------------------------------------------------------------------------
\* C14
\* ------------------------------------------------------------------------

\* The probe (launch, then close) succeeded.
LaunchSucceeded(d) == d.launch = "launched"

\* The known executable path exists on disk.
ExecutableExists(d) == d.path = "exists"

\* C14: whenever detection reports the browser as installed, because the
\* headless launch succeeded or because it failed but the known executable
\* path exists on disk, ensureBrowserInstalled returns successfully without
\* ever spawning the installer; detection reports "not installed" only when
\* the launch fails and the executable path is missing or cannot be
\* determined.
C14_InstalledShortCircuits ==
    /\ \A i \in 1..Len(detections) :
          detections[i].installed
            <=> (LaunchSucceeded(detections[i]) \/ ExecutableExists(detections[i]))
    /\ (Len(detections) >= 1
          /\ (LaunchSucceeded(detections[1]) \/ ExecutableExists(detections[1]))) =>
          /\ ensPc = "done"
          /\ ensResult = "ok" /\ ensError = NULL
          /\ spawns = 0
          /\ instChild = "none" /\ instPromise = NoPromise
          /\ Len(detections) = 1

\* The launch failed, the executable exists, and the call has returned.
C14_Witness ==
    /\ ensPc = "done"
    /\ ensResult = "ok"
    /\ detections = <<Detection("launchThrows", "exists")>>
    /\ spawns = 0

\* ------------------------------------------------------------------------
\* C15
\* ------------------------------------------------------------------------

InstallerExitedZero ==
    /\ instChild = "closed" /\ instExit = <<0>>
    /\ instPromise.state = "resolved"

PresentAfterInstall ==
    /\ Len(detections) = 2
    /\ (LaunchSucceeded(detections[2]) \/ ExecutableExists(detections[2]))

AbsentAfterInstall ==
    /\ Len(detections) = 2
    /\ ~(LaunchSucceeded(detections[2]) \/ ExecutableExists(detections[2]))

\* C15: if the browser is initially absent, the installer exits with code 0
\* and the post-install detection still reports absence, the call fails
\* with a verification error that differs from every error of an installer
\* exiting with a non-zero code; after an install it succeeds only if the
\* post-install detection reports presence.
C15_VerificationErrorDistinct ==
    /\ (ensPc = "done" /\ InstallerExitedZero /\ AbsentAfterInstall) =>
          /\ ensResult = "error"
          /\ ensError = VerificationFailed
    /\ (ensResult = "error" /\ InstallFailedOnExitCode) =>
          ensError # VerificationFailed
    /\ (ensResult = "error" /\ ensError = VerificationFailed) =>
          InstallerExitedZero /\ AbsentAfterInstall
    /\ (ensResult = "ok" /\ spawns > 0) =>
          InstallerExitedZero /\ PresentAfterInstall

C15_Witness ==
    /\ ensPc = "done"
    /\ InstallerExitedZero
    /\ AbsentAfterInstall
    /\ ensError = VerificationFailed

\* ------------------------------------------------------------------------
\* C18
\* ------------------------------------------------------------------------

HasClassified(i) == invHeaders[i] # NoHeaders

SameInputs(i, j) ==
    /\ invArgs[i].url = invArgs[j].url
    /\ invArgs[i].filePath = invArgs[j].filePath
    /\ invHeaders[i] = invHeaders[j]

\* What an invocation running alone computes from the same inputs.
AloneClassification(i) ==
    classificationOf[invArgs[i].url, invArgs[i].filePath,
                     invHeaders[i].contentType, invHeaders[i].contentDisposition]

PastCreateBrowser(i) == invBrowser[i] # 0

DeclaredType(header) ==
    LET semis == {i \in 1..Len(header) : CharAt(header, i) = ";"}
        cut   == IF semis = {} THEN Len(header)
                 ELSE (CHOOSE i \in semis : \A j \in semis : i <= j) - 1
    IN  toLowerCase(trim(SubSeq(header, 1, cut)))

WeakTypes == {"", "application/octet-stream", "text/plain"}

InExtensionTable(e) == e \in DOMAIN extensionToContentType

\* C21: the effective content type equals the declared content type
\* (lower-cased, parameters stripped) whenever the declared type is present
\* and is neither application/octet-stream nor text/plain; when it is
\* missing, application/octet-stream or text/plain, it is the table type of
\* the URL extension if that is in the extension table, else the table type
\* of the path extension if that is in the table, else the declared type.
C21_EffectiveContentType ==
    classified =>
       LET declared == DeclaredType(headers.contentType)
           eff      == cls.effectiveContentType
       IN  /\ cls.contentType = declared
           /\ declared \notin WeakTypes => eff = declared
           /\ (declared \in WeakTypes /\ InExtensionTable(cls.urlExtension)) =>
                 eff = extensionToContentType[cls.urlExtension]
           /\ (declared \in WeakTypes /\ ~InExtensionTable(cls.urlExtension)
                 /\ InExtensionTable(cls.pathExtension)) =>
                 eff = extensionToContentType[cls.pathExtension]
           /\ (declared \in WeakTypes /\ ~InExtensionTable(cls.urlExtension)
                 /\ ~InExtensionTable(cls.pathExtension)) =>
                 eff = declared

\* text/plain with parameters, upgraded by the URL extension although the
\* path extension is in the table too.
C21_Witness ==
    /\ classified
    /\ headers.contentType = "TEXT/PLAIN; Charset=UTF-8"
    /\ url = "https://example.com/a.pdf"
    /\ filePath = "out/file.txt"
    /\ cls.contentType = "text/plain"
    /\ cls.effectiveContentType = "application/pdf"

\* ------------------------------------------------------------------------
\* C22
\* ------------------------------------------------------------------------

Navigations == Occurrences(steps, "goto")

Did(step) == Occurrences(steps, step) > 0

AfterNavigationSteps ==
    {"classify", "mkdir", "waitForNavigation", "waitForResponse", "body",
     "process", "writeFile"}

\* C22: an invocation issues exactly one page navigation to the target
\* URL: the text branch hands the loaded page to the content processor and
\* does not navigate again, and the waits of the binary branch only observe
\* and start no new request.
C22_SingleNavigation ==
    /\ Navigations <= 1
    /\ navigatedUrl # NULL <=> Navigations = 1
    /\ Navigations = 1 => navigatedUrl = url
    /\ (\E st \in AfterNavigationSteps : Did(st)) => Navigations = 1
    /\ (pc = "done" /\ EnteredTry /\ browser # "null" /\ page # "null") =>
          Navigations = 1
    /\ result = "ok" => Navigations = 1

\* The text branch ran to the end after one navigation.
C22_Witness ==
    /\ pc = "done"
    /\ result = "ok"
    /\ Did("process")
    /\ written = cls.finalFilePath
    /\ Navigations = 1

\* ------------------------------------------------------------------------
\* C23
\* ------------------------------------------------------------------------

Rank(st) ==
    CASE st = "validate" -> 1
      [] st = "createBrowser" -> 2
      [] st = "createContext" -> 3
      [] st = "createPage" -> 4
      [] st = "goto" -> 5
      [] st = "classify" -> 6
      [] st = "mkdir" -> 7
      [] st = "waitForNavigation" -> 8
      [] st = "waitForResponse" -> 9
      [] st \in {"body", "process"} -> 10
      [] st = "writeFile" -> 11
      [] st = "cleanup" -> 12

AcquireOrder == <<"createBrowser", "createContext", "createPage">>

BinaryOrder ==
    <<"validate">> \o AcquireOrder \o <<"goto", "classify", "mkdir", "body", "writeFile">>

TextOrder ==
    <<"validate">> \o AcquireOrder \o <<"goto", "classify", "mkdir", "process", "writeFile">>

IsPersistStep(st) ==
    st \notin {"waitForNavigation", "waitForResponse", "cleanup"}

IsPrefix(a, b) == Len(a) <= Len(b) /\ SubSeq(b, 1, Len(a)) = a

\* The steps never go back, and none happens twice.
StepsInOrder ==
    \A i, j \in 1..Len(steps) : i < j => Rank(steps[i]) < Rank(steps[j])

\* Every step but the waits and the cleanup has all its predecessors.
StepsFollowChain ==
    LET main == SelectSeq(steps, IsPersistStep)
    IN  IsPrefix(main, BinaryOrder) \/ IsPrefix(main, TextOrder)

ReadFailures ==
    {"response.body: failed", "extraction failed",
     "Failed to process page content", "processor crashed"}

WriteFacts ==
    /\ Occurrences(steps, "writeFile") <= 1
    /\ written # NULL =>
          /\ Did("writeFile")
          /\ written = cls.finalFilePath
          /\ classified /\ response = "present"
          /\ mkdirOutcome \in {"ok", "EEXIST"}
    /\ pendingError \in ReadFailures =>
          /\ written = NULL
          /\ ~Did("writeFile")
          /\ mkdirOutcome \in {"ok", "EEXIST"}

\* C23: within one invocation the steps happen in the order validate,
\* acquire session, navigate, classify, create directory, read body (binary)
\* or extract content (text), write file, cleanup, each one only after the
\* previous one succeeded; at most one file write happens, to the resolved
\* final path and only after a non-null response was classified; a failed
\* extraction or body read leaves no file written.
C23_StepsInOrderOneWrite ==
    /\ [](StepsInOrder /\ StepsFollowChain /\ WriteFacts)
    /\ [][pendingError # NULL => steps' \in {steps, Append(steps, "cleanup")}]_vars
    /\ [][written # NULL => written' = written]_vars

\* The body read failed after the directory was created: nothing written.
C23_Witness ==
    /\ pc = "done"
    /\ errorMessage = "response.body: failed"
    /\ mkdirOutcome = "ok"
    /\ written = NULL
    /\ CleanedUpOnce

\* ------------------------------------------------------------------------
\* C24
\* ------------------------------------------------------------------------

InstallerFailed == instPromise.state = "rejected"

\* C24: one ensureBrowserInstalled call spawns the installer at most once
\* and runs detection at most twice; the installer is spawned only after a
\* detection reported absence and is never retried; when it fails (non-zero
\* exit code or process error) the re-check is not performed and the
\* installer's error reaches the caller unchanged.
C24_OneInstallNoRetry ==
    /\ spawns <= 1
    /\ Len(detections) <= 2
    /\ (spawns = 1 \/ instChild # "none" \/ instPromise # NoPromise) =>
          /\ spawns = 1
          /\ Len(detections) >= 1
          /\ ~(LaunchSucceeded(detections[1]) \/ ExecutableExists(detections[1]))
    /\ Len(detections) = 2 =>
          /\ spawns = 1
          /\ instPromise.state = "resolved"
    /\ InstallerFailed =>
          /\ Len(detections) = 1
          /\ ensPc \in {"installing", "done"}
          /\ ensPc = "done" =>
                /\ ensResult = "error"
                /\ ensError = instPromise.error

\* The installer exited with code 1: one detection, one spawn, its error.
C24_Witness ==
    /\ ensPc = "done"
    /\ instChild = "closed" /\ instExit = <<1>>
    /\ spawns = 1
    /\ Len(detections) = 1
    /\ ensResult = "error"
    /\ ensError = "Browser installation failed with exit code: 1"

\* ------------------------------------------------------------------------
\* C25
\* ------------------------------------------------------------------------

\* What validateUrlProtocol returned for the url argument.
AcceptedUrl == validated[url].value

\* C25: the URL download_url navigates to, and the URL it takes the
\* extension from, is the string the protocol validator accepted and
\* returned (the trimmed URL), for every accepted input, also one with
\* leading or trailing whitespace.
C25_NavigatesValidatedUrl ==
    /\ navigatedUrl # NULL => navigatedUrl = AcceptedUrl
    /\ classified => cls.urlExtension = urlExtensionOf(AcceptedUrl)

\* ------------------------------------------------------------------------
\* C26
\* ------------------------------------------------------------------------

\* fs.writeFile is about to be called, or was called, with the final path.
ReachedWrite == pc \in {"writeBinary", "writeText"} \/ Did("writeFile")

\* The final path names a file download<ext> in the directory filePath.
NamesDownloadIn(final, dir) ==
    \E k \in 1..Len(final) :
       /\ SubSeq(final, 1, k) = normalize(dir) \/ SubSeq(final, 1, k) = dir
       /\ startsWithAt(final, k + 1, "download")
       /\ \A m \in (k + 1)..Len(final) : CharAt(final, m) # sep

\* C26: in every execution that reaches the file write, the path written to
\* never ends in a directory separator: when filePath ends in a separator
\* the file written is download<ext> inside that directory, for binary
\* downloads with an empty expected extension, for directories whose name
\* carries the expected extension, and for the text branch.
C26_NeverWritesToDirectory ==
    ReachedWrite =>
       /\ ~endsWith(cls.finalFilePath, sep)
       /\ endsWith(filePath, sep) => NamesDownloadIn(cls.finalFilePath, filePath)

====
